---------------------------- MODULE Spec2Model ----------------------------
(***************************************************************************)
(* A model of the paginated storage engine of micropydatabase.py: one      *)
(* table of one database, its directory of files, and the in-memory Table  *)
(* object (current_row).  Every public operation of Table is one action    *)
(* that models the whole call, including the state it leaves behind when   *)
(* it raises half way.                                                     *)
(*                                                                         *)
(* Representation.                                                         *)
(*  - A file name is a record [first, last, ext]: "data<first>_<last>.dat" *)
(*    has ext "dat", "<page>.temp" has ext "temp", "<page>.vacu" has ext   *)
(*    "vacu"; "definition.json" is DefinitionFile.  The sort key the code  *)
(*    parses out of a name, int(x.split('.')[0].split('_')[1]), is `last`. *)
(*  - A file is a sequence of lines.  A line is a record [r, d] (the JSON  *)
(*    object {"r": .., "d": {..}}) or BlankLine ("\n").  d is a function   *)
(*    from the column names present to values.                             *)
(*  - A value is a record [t, v, n]: its Python type, an identity and,     *)
(*    for a str, its length.  None is Null.  A list of values is ListOf.   *)
(*  - A call's outcome is recorded in `last`: the operation, its argument, *)
(*    err ("none" when it returned) and the returned value.                *)
(*  - The process may stop inside the rewrite of a page (CrashInModify):    *)
(*    the directory is left as it was after one of the rewrite's steps.    *)
(*    CrashInVacuum is the same for vacuum (SpecCrash).                    *)
(*  - SpecValid hands the validator data the schema does not allow;        *)
(*    SpecBatch inserts lists into a table with three rows to the page.    *)
(*  - SpecCreate creates the table with settings of its own; SpecShort    *)
(*    lets a rewrite write fewer lines than it was given; SpecWriters      *)
(*    interleaves the rewrites of two processes on one page.               *)
(*  - A value an operation uses more than once is handed to a local        *)
(*    operator, LET Step(x) == ... IN Step(e), so that e is written, and   *)
(*    evaluated, once.                                                     *)
(***************************************************************************)
EXTENDS Integers, Sequences, FiniteSets, TLC

\* ---------------------------------------------------------------- bounds
\* rows_per_page the table is created with (Database.create's default is 10).
RowsPerPage == 2
\* max_rows of the table (Database.create's default is 10000).
max_rows == 4
\* Longest list handed to insert().
MaxBatch == 3
\* A failed single insert still increments current_row (line 302); the model
\* stops inserting once current_row reaches max_rows + MaxOverflow.
MaxOverflow == 1

\* ------------------------------------------------------- program constants
\* 'max_length': 10000 given to every str column by create_table.
max_length == 10000

VARIABLES
    files,          \* the table directory: file name -> sequence of lines
    current_row,    \* Table.current_row of the open Table object
    opened,         \* TRUE while a Table object exists (open_table succeeded)
    rows_per_page,  \* Table.rows_per_page (definition.json settings)
    last,           \* the last call: [op, arg, err, val, pre_row]
    n_single,       \* history: [n, reopened], n the number of successful
                    \* single-row inserts since the table was empty when
                    \* nothing but these, reads, open_table and inserts
                    \* rejected by the validator ran since (-1 otherwise),
                    \* reopened whether open_table ran among them
    assigned,       \* history: [counted, ids, twice], ids the row ids the
                    \* inserts have given to rows since the table was
                    \* created, twice those given a second time; counted
                    \* in SpecIds only, until the first truncate or vacuum
                    \* and until an id is given a second time;
    writers         \* the processes that rewrite a page at the same time
                    \* (SpecWriters): [at, overlapped], at the step and the
                    \* call of each, overlapped whether two of them have
                    \* been inside __modify_data_file together

\* The name of the last operation stands before its record: the argument
\* and the value of two different operations are of different kinds.
vars == <<files, current_row, opened, rows_per_page, last.op, last, n_single,
          assigned, writers>>

\* ---------------------------------------------------------------- values
StrV(i) == [t |-> "str", v |-> i, n |-> 1]
LongStr == [t |-> "str", v |-> 0, n |-> max_length + 1]
IntV(i) == [t |-> "int", v |-> i, n |-> 0]
BoolV(i) == [t |-> "bool", v |-> i, n |-> 0]
Null == [t |-> "null", v |-> 0, n |-> 0]
ListOf(S) == [t |-> "list", v |-> 0, n |-> 0, items |-> S]

\* self.columns of a table created with {"name": str, "age": int}.
columns ==
    [name |-> [data_type |-> "str", max_length |-> max_length],
     age  |-> [data_type |-> "int", max_length |-> 0]]

\* Iteration order of the column dict (and of the dicts the callers pass).
column_order == <<"name", "age", "what">>

\* str.lower() on the keys the callers use.
lower(column) == IF column = "Name" THEN "name" ELSE column

EmptyDict == [c \in {} |-> Null]

\* The keys of dict `data` in iteration order.
RECURSIVE KeysFrom(_, _)
KeysFrom(data, i) ==
    IF i > Len(column_order) THEN <<>>
    ELSE IF column_order[i] \in DOMAIN data
         THEN <<column_order[i]>> \o KeysFrom(data, i + 1)
         ELSE KeysFrom(data, i + 1)

Keys(data) == KeysFrom(data, 1)

\* A dict.update that forgets the fields it was not given.
DictReplace(d, u) == u

\* dict.update
DictUpdate(d, u) ==
    [c \in (DOMAIN d) \cup (DOMAIN u) |-> IF c \in DOMAIN u THEN u[c] ELSE d[c]]

Min(a, b) == IF a < b THEN a ELSE b
Max(a, b) == IF a > b THEN a ELSE b

\* Python's data[:n] and data[n:] (n may be negative).
SliceTo(data, n) ==
    IF n >= 0 THEN SubSeq(data, 1, Min(n, Len(data)))
    ELSE SubSeq(data, 1, Max(0, Len(data) + n))

SliceFrom(data, n) ==
    IF n >= 0 THEN SubSeq(data, Min(n, Len(data)) + 1, Len(data))
    ELSE SubSeq(data, Max(0, Len(data) + n) + 1, Len(data))

\* ----------------------------------------------------------------- files
BlankLine == [r |-> 0, d |-> EmptyDict]

DefinitionFile == [first |-> 0, last |-> 0, ext |-> "definition.json"]

\* json.dumps(data) of Table.create_table (lines 168-200).
DefinitionWith(rpp, limit) ==
    [settings |-> [rows_per_page |-> rpp, max_rows |-> limit],
     columns |-> columns]

Definition(rpp) == DefinitionWith(rpp, max_rows)

file_exists(fs, path) == path \in DOMAIN fs

\* 'data' in element  /  file_name[0:4] == 'data'
IsDataFile(name) == name.ext \in {"dat", "temp", "vacu"}

\* file_name[-4:] in ['temp', 'vacu']
IsTemporary(name) == name.ext \in {"temp", "vacu"}

\* The directory holds no .temp and no .vacu file.  An aborted vacuum leaves
\* .vacu files behind; the model then runs only the reads, truncate and
\* open_table on the table and does not go on writing to it.
NoLeftovers(fs) == \A f \in DOMAIN fs : ~IsTemporary(f)

WriteFile(fs, path, lines) ==
    [p \in (DOMAIN fs) \cup {path} |-> IF p = path THEN lines ELSE fs[p]]

RemoveFile(fs, path) == [p \in (DOMAIN fs) \ {path} |-> fs[p]]

\* open(page, 'a+'); f.write(...)
AppendFile(fs, path, lines) ==
    WriteFile(fs, path, (IF path \in DOMAIN fs THEN fs[path] ELSE <<>>) \o lines)

\* ------------------------------------------------------- page addressing
\* Page addressing without the case of the last row id of a page.
data_file_no_last_row(row_id, rpp) ==
    LET first_number == (row_id \div rpp) * rpp + 1
        second_number == first_number + rpp - 1
    IN  [first |-> first_number, last |-> second_number, ext |-> "dat"]

\* __data_file_for_row_id, with self.rows_per_page as rpp.
data_file_for_row_id(row_id, rpp) ==
    LET file_row_id == row_id % rpp
    IN  IF file_row_id = 0
        THEN LET second_number == (row_id \div rpp) * rpp
                 first_number == second_number - rpp + 1
             IN  [first |-> first_number, last |-> second_number, ext |-> "dat"]
        ELSE LET first_number == (row_id \div rpp) * rpp + 1
                 second_number == first_number + rpp - 1
             IN  [first |-> first_number, last |-> second_number, ext |-> "dat"]

\* Results of __row_id_in_file that are not a line number.
NoneValue == -1
OSErrorValue == -2

RECURSIVE FirstLineWith(_, _, _)
FirstLineWith(lines, row_id, i) ==
    IF i > Len(lines) THEN NoneValue
    ELSE IF lines[i] # BlankLine /\ lines[i].r = row_id THEN i - 1
    ELSE FirstLineWith(lines, row_id, i + 1)

\* The line of row_id taken from its position in the page, not from a scan.
row_id_by_position(fs, row_id, rpp) ==
    IF row_id = 0 THEN 0
    ELSE IF ~file_exists(fs, data_file_for_row_id(row_id, rpp)) THEN OSErrorValue
    ELSE (row_id - 1) % rpp

\* __row_id_in_file: the zero-based line of row_id in its page, None when the
\* page does not hold it; open() raises OSError when the page does not exist.
row_id_in_file(fs, row_id, rpp) ==
    IF row_id = 0 THEN 0
    ELSE LET path == data_file_for_row_id(row_id, rpp)
         IN  IF ~file_exists(fs, path) THEN OSErrorValue
             ELSE FirstLineWith(fs[path], row_id, 1)

\* ------------------------------------------------------ schema validator
\* The check __scrub_data applies to one (column, value) item: the exception
\* it raises, or "none".
ScrubItem(column, value) ==
    IF lower(column) \notin DOMAIN columns THEN "UnknownColumn"
    ELSE LET def == columns[lower(column)]
         IN  IF def.data_type = "str" /\ value.t = "str"
             THEN IF value.n > def.max_length THEN "LengthExceeded" ELSE "none"
             \* isinstance(value, int) holds for a bool as well
             ELSE IF def.data_type = "int" /\ value.t \in {"int", "bool"}
             THEN "none"
             ELSE "TypeMismatch"

RECURSIVE ScrubLoop(_, _, _)
ScrubLoop(data, keys, result) ==
    IF keys = <<>> THEN [err |-> "none", val |-> result]
    ELSE LET column == Head(keys)
             e == ScrubItem(column, data[column])
         IN  IF e # "none" THEN [err |-> e, val |-> EmptyDict]
             ELSE ScrubLoop(data, Tail(keys),
                            DictUpdate(result, [c \in {lower(column)} |-> data[column]]))

\* __scrub_data: validates the items in order, lower-cases the keys and, with
\* fill_missing, sets the columns that were not supplied to None.
scrub_data(data, fill_missing) ==
    LET Filled(r) ==
            IF r.err # "none" THEN r
            ELSE IF fill_missing
                 THEN [err |-> "none",
                       val |-> [c \in DOMAIN columns |->
                                  IF c \in DOMAIN r.val THEN r.val[c] ELSE Null]]
                 ELSE r
    IN  Filled(ScrubLoop(data, Keys(data), EmptyDict))

\* ----------------------------------------------------------- the callers
\* Rows handed to insert(): two complete rows that differ in one column, a
\* row that omits a column, and rows the validator rejects.
ValidRows ==
    { [name |-> StrV(1), age |-> IntV(1)],
      [name |-> StrV(2), age |-> IntV(1)],
      [name |-> StrV(1)] }

InvalidRows ==
    { [name |-> LongStr, age |-> IntV(1)] }

Untracked == [n |-> -1, reopened |-> FALSE]

NotCounted == [counted |-> FALSE, ids |-> {}, twice |-> {}]

\* The processes that take part in the rewrites of SpecWriters.
Writers == {1, 2}

Idle == [pc |-> "idle", call |-> [op |-> "none", row_id |-> 0, data |-> EmptyDict],
         data |-> EmptyDict, applied |-> FALSE]

NoWriters == [at |-> [w \in Writers |-> Idle], overlapped |-> FALSE]

\* `assigned` after an insert that gave the row ids of new_ids to rows.
Assign(new_ids) ==
    IF ~assigned.counted THEN assigned
    ELSE IF new_ids \cap assigned.ids # {}
    THEN [counted |-> FALSE, ids |-> {}, twice |-> new_ids \cap assigned.ids]
    ELSE [counted |-> TRUE, ids |-> assigned.ids \cup new_ids, twice |-> {}]

Result(op, arg, err, val) ==
    [op |-> op, arg |-> arg, err |-> err, val |-> val, pre_row |-> current_row]

\* --------------------------------------------------------------- insert
\* An append that stamps the row with the id before the increment.
append_row_stale(fs, data, page, cur) ==
    AppendFile(fs, page, <<[r |-> cur - 1, d |-> data]>>)

\* __append_row: one json line {'r': self.current_row, 'd': data}.
append_row(fs, data, page, cur) ==
    AppendFile(fs, page, <<[r |-> cur, d |-> data]>>)

\* __insert_modify_data_file(path, data) with fast = True.
insert_modify_data_file(fs, page, data, cur) == append_row(fs, data, page, cur)

\* Table.insert, the single-row branch (lines 299-315), self.max_rows being
\* `limit`: [files, current_row, err].
insert_row_within(fs, cur, rpp, limit, user_data) ==
    LET Scrubbed(s) ==
            IF s.err # "none"
            THEN [files |-> fs, current_row |-> cur, err |-> s.err]
            ELSE IF s.val = EmptyDict
            THEN [files |-> fs, current_row |-> cur, err |-> "Invalid"]
            ELSE IF cur + 1 < limit
            THEN [files |-> insert_modify_data_file(
                                fs, data_file_for_row_id(cur + 1, rpp), s.val,
                                cur + 1),
                  current_row |-> cur + 1, err |-> "none"]
            ELSE [files |-> fs, current_row |-> cur + 1, err |-> "TableFull"]
    IN  Scrubbed(scrub_data(user_data, TRUE))

\* The same for the table whose max_rows is the database's.
insert_row(fs, cur, rpp, user_data) ==
    insert_row_within(fs, cur, rpp, max_rows, user_data)

Insert(data) ==
    /\ opened
    /\ NoLeftovers(files)
    /\ current_row < max_rows + MaxOverflow
    /\ \E res \in {insert_row(files, current_row, rows_per_page, data)} :
           /\ files' = res.files
           /\ current_row' = res.current_row
           /\ last' = Result("insert", data, res.err, res.err = "none")
           /\ n_single' = IF n_single.n < 0 THEN Untracked
                          ELSE IF res.err = "none"
                          THEN [n_single EXCEPT !.n = @ + 1]
                          ELSE IF res.current_row = current_row THEN n_single
                          ELSE Untracked
           /\ assigned' = Assign(IF res.err = "none" THEN {res.current_row}
                                 ELSE {})
    /\ UNCHANGED <<opened, rows_per_page, writers>>

\* Lists handed to insert(): 1..MaxBatch rows, neighbours differing.
row_list == << [name |-> StrV(1), age |-> IntV(1)],
               [name |-> StrV(2), age |-> IntV(1)] >>

Batch(k) == [i \in 1..k |-> row_list[((i - 1) % Len(row_list)) + 1]]

Batches == { Batch(k) : k \in 1..MaxBatch }

\* __multi_append_row
multi_append_row(fs, lines, page) == AppendFile(fs, page, lines)

\* __is_multi_insert_success: the lines of the page after start_line are
\* exactly the lines that were to be appended.
is_multi_insert_success(fs, lines, page, start_line, rpp) ==
    LET start == IF start_line = rpp THEN 0 ELSE start_line
    IN  SubSeq(fs[page], start + 1, Len(fs[page])) = lines

\* The record lines of first_data, numbered from cur + 1 (lines 282-286).
NumberRows(first_data, cur) ==
    [x \in 1..Len(first_data) |-> [r |-> cur + x, d |-> first_data[x]]]

\* The while loop of the multi-row branch (lines 258-297):
\* [files, current_row, err].
RECURSIVE insert_loop(_, _, _, _, _)
insert_loop(fs, cur, rpp, data, total) ==
    LET \* lines 285-296: write first_data to first_path, check, go on
        Write(first_data, rest, first_path, current_line, insert_number) ==
            LET Check(lines, written) ==
                    IF ~is_multi_insert_success(written, lines, first_path,
                                                current_line, rpp)
                    THEN [files |-> written,
                          current_row |-> cur + Len(first_data),
                          err |-> "WriteVerification"]
                    ELSE insert_loop(written, cur + Len(first_data), rpp, rest,
                                     total - insert_number)
            IN  Check(NumberRows(first_data, cur),
                      multi_append_row(fs, NumberRows(first_data, cur),
                                       first_path))
        \* lines 264-281: the max_rows check and the split of data
        Split(current_line, insert_number) ==
            IF cur + insert_number > max_rows
            THEN [files |-> fs, current_row |-> cur, err |-> "TableFull"]
            ELSE Write(IF insert_number < total
                       THEN SliceTo(data, insert_number) ELSE data,
                       IF insert_number < total
                       THEN SliceFrom(data, insert_number) ELSE data,
                       data_file_for_row_id(cur + 1, rpp),
                       current_line, insert_number)
        \* lines 258-262: current_line and insert_number
        From(line) ==
            IF line = OSErrorValue
            THEN [files |-> fs, current_row |-> cur, err |-> "OSError"]
            ELSE IF line = NoneValue
            THEN [files |-> fs, current_row |-> cur, err |-> "TypeError"]
            ELSE Split(line + 1,
                       IF rpp - (line + 1) = 0 THEN rpp ELSE rpp - (line + 1))
    IN  IF total <= 0 THEN [files |-> fs, current_row |-> cur, err |-> "none"]
        ELSE From(row_id_in_file(fs, cur, rpp))

\* Table.insert, the multi-row branch (lines 246-297).
insert_rows(fs, cur, rpp, data) ==
    LET Scrubbed(checked) ==
            LET Bad(bad) ==
                    IF bad # {}
                    THEN [files |-> fs, current_row |-> cur,
                          err |-> checked[CHOOSE x \in bad :
                                            \A y \in bad : x <= y].err]
                    ELSE IF \E x \in 1..Len(data) : checked[x].val = EmptyDict
                    THEN [files |-> fs, current_row |-> cur, err |-> "Invalid"]
                    ELSE insert_loop(fs, cur, rpp, data, Len(data) - 1)
            IN  Bad({ x \in 1..Len(data) : checked[x].err # "none" })
    IN  Scrubbed([x \in 1..Len(data) |-> scrub_data(data[x], TRUE)])

InsertMany(data) ==
    /\ opened
    /\ NoLeftovers(files)
    /\ \E res \in {insert_rows(files, current_row, rows_per_page, data)} :
           /\ files' = res.files
           /\ current_row' = res.current_row
           /\ last' = Result("insert_many", data, res.err, res.err = "none")
           /\ assigned' = Assign((current_row + 1)..res.current_row)
    /\ n_single' = Untracked
    /\ UNCHANGED <<opened, rows_per_page, writers>>

\* ------------------------------------------------------ directory listing
\* os.listdir returns the names in an order the file system chooses.  sorted()
\* is stable, so that order only shows between names with the same key: a
\* page and its .temp / .vacu sibling.  A listing order ranks the extensions.
ListdirOrders ==
    { o \in [{"dat", "temp", "vacu"} -> 1..3] :
        \A a, b \in DOMAIN o : a # b => o[a] # o[b] }

DefaultOrder == [e \in {"dat", "temp", "vacu"} |->
                    IF e = "dat" THEN 1 ELSE IF e = "temp" THEN 2 ELSE 3]

DataFiles(fs) == { f \in DOMAIN fs : IsDataFile(f) }

\* The listing orders that can be told apart in directory fs.
Orders(fs) ==
    IF \E a, b \in DataFiles(fs) : a # b /\ a.last = b.last
    THEN ListdirOrders ELSE {DefaultOrder}

\* a comes before b in sorted(location, key = last, reverse = reverse).
Before(a, b, o, reverse) ==
    \/ (IF reverse THEN a.last > b.last ELSE a.last < b.last)
    \/ a.last = b.last /\ o[a.ext] < o[b.ext]

RECURSIVE SortFiles(_, _, _)
SortFiles(S, o, reverse) ==
    IF S = {} THEN <<>>
    ELSE LET m == CHOOSE a \in S : \A b \in S \ {a} : Before(a, b, o, reverse)
         IN  <<m>> \o SortFiles(S \ {m}, o, reverse)

\* location: the data files of the directory, sorted by their range.
sorted_location(fs, o, reverse) == SortFiles(DataFiles(fs), o, reverse)

\* The lines of the files of location, in reading order.
RECURSIVE ReadAll(_, _)
ReadAll(fs, location) ==
    IF location = <<>> THEN <<>>
    ELSE fs[Head(location)] \o ReadAll(fs, Tail(location))

\* ------------------------------------------------------------ row cursor
\* The first line of the file in place of its last record.
first_line(lines, i) == IF i = 0 THEN BlankLine ELSE lines[1]

RECURSIVE LastNonBlank(_, _)
LastNonBlank(lines, i) ==
    IF i = 0 THEN BlankLine
    ELSE IF lines[i] # BlankLine THEN lines[i] ELSE LastNonBlank(lines, i - 1)

\* The row cursor read from the highest page alone.
CurrentRowOfHighest(fs, location) ==
    IF location = <<>> THEN 0
    ELSE LET last_line == LastNonBlank(fs[Head(location)], Len(fs[Head(location)]))
         IN  IF last_line # BlankLine THEN last_line.r ELSE 0

\* __calculate_current_row: r of the last non-blank line of the first file,
\* in descending range order, that has one; 0 when there is none.
RECURSIVE CurrentRowFrom(_, _)
CurrentRowFrom(fs, location) ==
    IF location = <<>> THEN 0
    ELSE LET last_line == LastNonBlank(fs[Head(location)], Len(fs[Head(location)]))
         IN  IF last_line # BlankLine THEN last_line.r
             ELSE CurrentRowFrom(fs, Tail(location))

\* The row cursor taken from the first page instead of the last.
current_row_first_page(fs, o) == CurrentRowFrom(fs, sorted_location(fs, o, FALSE))

calculate_current_row(fs, o) == CurrentRowFrom(fs, sorted_location(fs, o, TRUE))

\* ------------------------------------------------------- find_row by id
PyNone == [none |-> TRUE]

\* Table.find_row: [err, val].
find_row(fs, row_id, rpp) ==
    LET Read(looking_for_line, path) ==
            IF looking_for_line = OSErrorValue
            THEN [err |-> "OSError", val |-> PyNone]
            ELSE IF looking_for_line = NoneValue
            THEN [err |-> "RowNotFound", val |-> PyNone]
            ELSE IF ~file_exists(fs, path) THEN [err |-> "OSError", val |-> PyNone]
            ELSE IF looking_for_line + 1 > Len(fs[path])
            THEN [err |-> "none", val |-> PyNone]
            ELSE IF fs[path][looking_for_line + 1] = BlankLine
            THEN [err |-> "ValueError", val |-> PyNone]
            ELSE [err |-> "none", val |-> fs[path][looking_for_line + 1]]
    IN  Read(row_id_in_file(fs, row_id, rpp), data_file_for_row_id(row_id, rpp))

\* ------------------------------------------------------ update and delete
\* A rewrite that keeps the line of row_id alone.
modified_line_alone(lines, row_id, data, action) ==
    LET Changed(line) == [r |-> line.r, d |-> DictUpdate(line.d, data)]
        Mine(line) == line # BlankLine /\ line.r = row_id
    IN  IF action = "delete" THEN <<>>
        ELSE [i \in 1..Len(SelectSeq(lines, Mine)) |->
                Changed(SelectSeq(lines, Mine)[i])]

\* The lines __modify_data_file writes to the temp file: blank lines are
\* skipped, the line of row_id is dropped (delete) or rewritten with its d
\* updated (update), every other line is copied.
RECURSIVE ModifiedLines(_, _, _, _)
ModifiedLines(lines, row_id, data, action) ==
    IF lines = <<>> THEN <<>>
    ELSE LET line == Head(lines)
             rest == ModifiedLines(Tail(lines), row_id, data, action)
         IN  IF line = BlankLine THEN rest
             ELSE IF line.r = row_id
             THEN IF action = "delete" THEN rest
                  ELSE <<[r |-> line.r, d |-> DictUpdate(line.d, data)]>> \o rest
             ELSE <<line>> \o rest

TempPath(path) == [first |-> path.first, last |-> path.last, ext |-> "temp"]

\* os.rename(src, dst)
RenameFile(fs, src, dst) == RemoveFile(WriteFile(fs, dst, fs[src]), src)

\* __modify_data_file: [files, err].
modify_data_file(fs, path, row_id, data, action) ==
    IF ~file_exists(fs, path) THEN [files |-> fs, err |-> "RowNotFound"]
    ELSE LET temp_path == TempPath(path)
             written == WriteFile(fs, temp_path,
                                  ModifiedLines(fs[path], row_id, data, action))
         IN  [files |-> RenameFile(RemoveFile(written, path), temp_path, path),
              err |-> "none"]

\* An update_row that does not look the row up first.
update_row_unchecked(fs, row_id, update_data, rpp) ==
    LET Scrubbed(s) ==
            IF s.err # "none" THEN [files |-> fs, err |-> s.err]
            ELSE modify_data_file(fs, data_file_for_row_id(row_id, rpp), row_id,
                                  s.val, "update")
    IN  Scrubbed(scrub_data(update_data, FALSE))

\* Table.update_row: [files, err].
update_row(fs, row_id, update_data, rpp) ==
    LET Scrubbed(s) ==
            IF s.err # "none" THEN [files |-> fs, err |-> s.err]
            ELSE IF s.val = EmptyDict THEN [files |-> fs, err |-> "Invalid"]
            ELSE modify_data_file(fs, data_file_for_row_id(row_id, rpp), row_id,
                                  s.val, "update")
        Found(found) ==
            IF found.err # "none" THEN [files |-> fs, err |-> found.err]
            ELSE IF found.val = PyNone THEN [files |-> fs, err |-> "TypeError"]
            ELSE Scrubbed(scrub_data(DictUpdate(found.val.d, update_data), FALSE))
    IN  Found(find_row(fs, row_id, rpp))

\* Table.delete_row: [files, err].
delete_row(fs, row_id, rpp) ==
    modify_data_file(fs, data_file_for_row_id(row_id, rpp), row_id, EmptyDict,
                     "delete")

\* Data handed to update_row() and update().
UpdateData == { [name |-> StrV(2)] }

RowIds == 0..(max_rows + 1)

UpdateRow(row_id, data) ==
    /\ opened
    /\ NoLeftovers(files)
    /\ \E res \in {update_row(files, row_id, data, rows_per_page)} :
           /\ files' = res.files
           /\ last' = Result("update_row", <<row_id, data>>, res.err, 0)
    /\ n_single' = Untracked
    /\ UNCHANGED <<current_row, opened, rows_per_page, assigned,
                 writers>>

DeleteRow(row_id) ==
    /\ opened
    /\ NoLeftovers(files)
    /\ \E res \in {delete_row(files, row_id, rows_per_page)} :
           /\ files' = res.files
           /\ last' = Result("delete_row", row_id, res.err, 0)
    /\ n_single' = Untracked
    /\ UNCHANGED <<current_row, opened, rows_per_page, assigned,
                 writers>>

\* ---------------------------------------------------------- query engine
\* The loop over the predicate's columns for one record (lines 521-530).
RECURSIVE FoundLoop(_, _, _, _, _)
FoundLoop(keys, d, queries, multiple_keys, found) ==
    IF keys = <<>> THEN found
    ELSE LET query == Head(keys)
         IN  IF query \in DOMAIN d /\ d[query] \in queries[query].items
             THEN IF ~multiple_keys THEN TRUE
                  ELSE FoundLoop(Tail(keys), d, queries, multiple_keys, TRUE)
             ELSE IF multiple_keys THEN FALSE
                  ELSE FoundLoop(Tail(keys), d, queries, multiple_keys, FALSE)

\* The records __return_query finds, in the order it reads them.
MatchedLines(fs, queries, o) ==
    LET keys == Keys(queries)
        multiple_keys == Len(keys) > 1
    IN  SelectSeq(ReadAll(fs, sorted_location(fs, o, TRUE)),
                  LAMBDA line : line # BlankLine /\
                      FoundLoop(keys, line.d, queries, multiple_keys, FALSE))

\* __return_query: [err, none, val]; it returns None (none), the first d
\* (find), the list of d (query) or the list of r (update, delete).
return_query(fs, search_type, user_queries, o) ==
    LET Matched(matched) ==
            IF matched = <<>> THEN [err |-> "none", none |-> TRUE, val |-> <<>>]
            ELSE IF search_type = "find"
            THEN [err |-> "none", none |-> FALSE, val |-> matched[1].d]
            ELSE IF search_type = "query"
            THEN [err |-> "none", none |-> FALSE,
                  val |-> [i \in 1..Len(matched) |-> matched[i].d]]
            ELSE [err |-> "none", none |-> FALSE,
                  val |-> [i \in 1..Len(matched) |-> matched[i].r]]
        Scrubbed(s) ==
            IF s.err # "none" THEN [err |-> s.err, none |-> TRUE, val |-> <<>>]
            ELSE Matched(MatchedLines(fs,
                                      [c \in DOMAIN s.val |->
                                         IF s.val[c].t # "list"
                                         THEN ListOf({s.val[c]}) ELSE s.val[c]],
                                      o))
    IN  Scrubbed(IF user_queries # EmptyDict THEN scrub_data(user_queries, FALSE)
                 ELSE [err |-> "none", val |-> user_queries])

\* Table.query: [err, val], val the list of d.
query(fs, queries, o) ==
    LET Returned(results) ==
            IF results.err # "none" THEN [err |-> results.err, val |-> <<>>]
            ELSE IF results.none THEN [err |-> "none", val |-> <<>>]
            ELSE [err |-> "none", val |-> results.val]
    IN  Returned(return_query(fs, "query", queries, o))

\* Table.find: [err, val], val a d or None.
find(fs, queries, o) ==
    LET Returned(results) ==
            IF results.err # "none" \/ results.none
            THEN [err |-> results.err, val |-> PyNone]
            ELSE [err |-> "none", val |-> results.val]
    IN  Returned(return_query(fs, "find", queries, o))

\* Table.update: update_row on every matched row id, in order: [files, err].
RECURSIVE UpdateEach(_, _, _, _)
UpdateEach(fs, matched, data, rpp) ==
    LET Updated(res) ==
            IF res.err # "none" THEN res
            ELSE UpdateEach(res.files, Tail(matched), data, rpp)
    IN  IF matched = <<>> THEN [files |-> fs, err |-> "none"]
        ELSE Updated(update_row(fs, Head(matched), data, rpp))

update(fs, query_conditions, data, rpp, o) ==
    LET Returned(matched_queries) ==
            IF matched_queries.err # "none"
            THEN [files |-> fs, err |-> matched_queries.err]
            ELSE IF matched_queries.none
            THEN [files |-> fs, err |-> "NoMatch"]
            ELSE UpdateEach(fs, matched_queries.val, data, rpp)
    IN  Returned(return_query(fs, "update", query_conditions, o))

\* Table.delete: the matched list holds row ids, and found_row['r'] on the
\* first of them raises TypeError: [files, err].
delete(fs, query_conditions, rpp, o) ==
    LET Returned(matched_queries) ==
            IF matched_queries.err # "none"
            THEN [files |-> fs, err |-> matched_queries.err]
            ELSE IF matched_queries.none
            THEN [files |-> fs, err |-> "NoMatch"]
            ELSE [files |-> fs, err |-> "TypeError"]
    IN  Returned(return_query(fs, "delete", query_conditions, o))

\* Predicates handed to find / query / update / delete: one column, two
\* columns, and a column with a list of acceptable values.
ScalarPredicates ==
    { [name |-> StrV(1)],
      [age |-> IntV(1)],
      [name |-> StrV(1), age |-> IntV(1)] }

ListPredicates == { [name |-> ListOf({StrV(1), StrV(2)})] }

Predicates == ScalarPredicates \cup ListPredicates

Update(queries, data) ==
    /\ opened
    /\ NoLeftovers(files)
    /\ \E o \in Orders(files) :
         \E res \in {update(files, queries, data, rows_per_page, o)} :
             /\ files' = res.files
             /\ last' = Result("update", <<queries, data>>, res.err, 0)
    /\ n_single' = Untracked
    /\ UNCHANGED <<current_row, opened, rows_per_page, assigned,
                 writers>>

Delete(queries) ==
    /\ opened
    /\ NoLeftovers(files)
    /\ \E o \in Orders(files) :
         \E res \in {delete(files, queries, rows_per_page, o)} :
             /\ files' = res.files
             /\ last' = Result("delete", queries, res.err, 0)
    /\ n_single' = Untracked
    /\ UNCHANGED <<current_row, opened, rows_per_page, assigned,
                 writers>>

FindRow(row_id) ==
    /\ opened
    /\ \E res \in {find_row(files, row_id, rows_per_page)} :
           last' = Result("find_row", row_id, res.err, res.val)
    /\ UNCHANGED <<files, current_row, opened, rows_per_page, n_single, assigned,
                 writers>>

Query(queries) ==
    /\ opened
    /\ \E o \in Orders(files) :
         \E res \in {query(files, queries, o)} :
             last' = Result("query", queries, res.err, res.val)
    /\ UNCHANGED <<files, current_row, opened, rows_per_page, n_single, assigned,
                 writers>>

Find(queries) ==
    /\ opened
    /\ \E o \in Orders(files) :
         \E res \in {find(files, queries, o)} :
             last' = Result("find", queries, res.err, res.val)
    /\ UNCHANGED <<files, current_row, opened, rows_per_page, n_single, assigned,
                 writers>>

\* ------------------------------------------------------------------ scan
\* scan() called without a predicate (queries = None).
NoPredicate == EmptyDict

\* The loop over the predicate's columns for one record (lines 450-456):
\* [err, val], val the d yielded for this record, once per column that
\* equals the predicate until one differs.
RECURSIVE ScanColumns(_, _, _)
ScanColumns(keys, d, queries) ==
    LET Rest(rest) == [err |-> rest.err, val |-> <<d>> \o rest.val]
    IN  IF keys = <<>> THEN [err |-> "none", val |-> <<>>]
        ELSE IF Head(keys) \notin DOMAIN d THEN [err |-> "KeyError", val |-> <<>>]
        ELSE IF d[Head(keys)] = queries[Head(keys)]
        THEN Rest(ScanColumns(Tail(keys), d, queries))
        ELSE [err |-> "none", val |-> <<>>]

\* The loop over the lines of location (lines 439-456): [err, val], val the
\* d yielded until the generator ended or raised.
RECURSIVE ScanLines(_, _, _)
ScanLines(lines, keys, queries) ==
    LET Rest(rest) == [err |-> rest.err, val |-> <<Head(lines).d>> \o rest.val]
        Line(here) ==
            LET More(rest) == [err |-> rest.err, val |-> here.val \o rest.val]
            IN  IF here.err # "none" THEN here
                ELSE More(ScanLines(Tail(lines), keys, queries))
    IN  IF lines = <<>> THEN [err |-> "none", val |-> <<>>]
        ELSE IF Head(lines) = BlankLine THEN ScanLines(Tail(lines), keys, queries)
        ELSE IF keys = <<>> THEN Rest(ScanLines(Tail(lines), keys, queries))
        ELSE Line(ScanColumns(keys, Head(lines).d, queries))

\* Table.scan, the generator run to its end: [err, val].
scan(fs, user_queries, o) ==
    LET Scrubbed(s) ==
            IF s.err # "none" THEN [err |-> s.err, val |-> <<>>]
            ELSE ScanLines(ReadAll(fs, sorted_location(fs, o, FALSE)),
                           Keys(s.val), s.val)
    IN  Scrubbed(IF user_queries # EmptyDict THEN scrub_data(user_queries, FALSE)
                 ELSE [err |-> "none", val |-> user_queries])

Scan(queries) ==
    /\ opened
    /\ \E o \in Orders(files) :
         \E res \in {scan(files, queries, o)} :
             last' = Result("scan", queries, res.err, res.val)
    /\ UNCHANGED <<files, current_row, opened, rows_per_page, n_single, assigned,
                 writers>>

\* ------------------------------------------------- truncate and vacuum
\* A truncate that removes the page files and no other file.
truncate_pages_only(fs) == [p \in { q \in DOMAIN fs : q.ext # "dat" } |-> fs[p]]

\* Table.truncate
truncate(fs) == [p \in (DOMAIN fs) \ DataFiles(fs) |-> fs[p]]

Truncate ==
    /\ opened
    /\ files' = truncate(files)
    /\ current_row' = 0
    /\ last' = Result("truncate", 0, "none", 0)
    /\ n_single' = [n |-> 0, reopened |-> FALSE]
    /\ assigned' = NotCounted
    /\ UNCHANGED <<opened, rows_per_page, writers>>

VacuPath(path) == [first |-> path.first, last |-> path.last, ext |-> "vacu"]

RECURSIVE RenameAll(_, _)
RenameAll(fs, location) ==
    IF location = <<>> THEN fs
    ELSE RenameAll(RenameFile(fs, Head(location), VacuPath(Head(location))),
                   Tail(location))

\* self.insert(current_data['d']) for the non-blank lines of one .vacu file:
\* [files, current_row, err].
RECURSIVE ReplayLines(_, _, _, _)
ReplayLines(fs, cur, rpp, lines) ==
    LET Inserted(res) ==
            IF res.err # "none" THEN res
            ELSE ReplayLines(res.files, res.current_row, rpp, Tail(lines))
    IN  IF lines = <<>> THEN [files |-> fs, current_row |-> cur, err |-> "none"]
        ELSE IF Head(lines) = BlankLine
        THEN ReplayLines(fs, cur, rpp, Tail(lines))
        ELSE Inserted(insert_row(fs, cur, rpp, Head(lines).d))

RECURSIVE ReplayFiles(_, _, _, _)
ReplayFiles(fs, cur, rpp, location) ==
    LET Replayed(res, vacu) ==
            IF res.err # "none" THEN res
            ELSE ReplayFiles(RemoveFile(res.files, vacu), res.current_row, rpp,
                             Tail(location))
    IN  IF location = <<>>
        THEN [files |-> fs, current_row |-> cur, err |-> "none"]
        ELSE Replayed(ReplayLines(fs, cur, rpp, fs[VacuPath(Head(location))]),
                      VacuPath(Head(location)))

\* Table.vacuum: [files, current_row, err].
vacuum(fs, rpp, o) ==
    LET Listed(location) ==
            ReplayFiles(RenameAll(fs, location), 0, rpp, location)
    IN  Listed(sorted_location(fs, o, FALSE))

Vacuum ==
    /\ opened
    /\ NoLeftovers(files)
    /\ \E o \in Orders(files) :
         \E res \in {vacuum(files, rows_per_page, o)} :
             /\ files' = res.files
             /\ current_row' = res.current_row
             /\ last' = Result("vacuum", 0, res.err, 0)
    /\ n_single' = Untracked
    /\ assigned' = NotCounted
    /\ UNCHANGED <<opened, rows_per_page, writers>>

\* ------------------------------------------------------------ open_table
\* A check for the files left by a rewrite only.
open_table_temp_only(fs) ==
    IF \E file_name \in DOMAIN fs : file_name.ext = "temp"
    THEN "CorruptionGuard" ELSE "none"

\* The check of Table.open_table for files left by an earlier session
\* (lines 213-218): the exception it raises, or "none".
open_table(fs) ==
    IF \E file_name \in DOMAIN fs : IsTemporary(file_name)
    THEN "CorruptionGuard" ELSE "none"

\* Table.open_table on the table's directory, and Table.__init__.
Reopen ==
    /\ IF open_table(files) # "none"
       THEN /\ opened' = FALSE
            /\ current_row' = 0
            /\ last' = Result("open_table", 0, "CorruptionGuard", 0)
            /\ n_single' = Untracked
            /\ UNCHANGED rows_per_page
       ELSE /\ opened' = TRUE
            /\ rows_per_page' = files[DefinitionFile][1].settings.rows_per_page
            /\ \E o \in Orders(files) :
                 current_row' = calculate_current_row(files, o)
            /\ last' = Result("open_table", 0, "none", 0)
            /\ n_single' = IF n_single.n >= 0
                           THEN [n_single EXCEPT !.reopened = TRUE]
                           ELSE Untracked
    /\ UNCHANGED <<files, assigned,
                 writers>>

\* A rewrite that removes the page before it writes the temp file.
modify_steps_remove_first(fs, path, row_id, data, action) ==
    << [files |-> RemoveFile(fs, path), step |-> "removed"],
       [files |-> WriteFile(RemoveFile(fs, path), path,
                            ModifiedLines(fs[path], row_id, data, action)),
        step |-> "renamed"] >>

\* ------------------------------------- the process stops in a rewrite
\* The directory after each step of __modify_data_file (lines 710-742), as
\* [files, step]: the temp file opened for writing ("created"), then holding
\* the first k lines it is to get ("copying", and "copied" with the last of
\* them), the original page removed ("removed"), the temp file renamed to
\* the page ("renamed").  A line is written whole or not at all.
ModifySteps(fs, path, row_id, data, action) ==
    LET Steps(lines, temp_path) ==
            [k \in 1..(Len(lines) + 1) |->
                [files |-> WriteFile(fs, temp_path, SubSeq(lines, 1, k - 1)),
                 step |-> IF k = 1 THEN "created"
                          ELSE IF k <= Len(lines) THEN "copying" ELSE "copied"]]
            \o << [files |-> RemoveFile(WriteFile(fs, temp_path, lines), path),
                   step |-> "removed"],
                  [files |-> RenameFile(RemoveFile(WriteFile(fs, temp_path, lines),
                                                   path),
                                        temp_path, path),
                   step |-> "renamed"] >>
    IN  Steps(ModifiedLines(fs[path], row_id, data, action), TempPath(path))

\* The data update_row hands to __modify_data_file (lines 336-341).
UpdateArgument(fs, row_id, update_data, rpp) ==
    scrub_data(DictUpdate(find_row(fs, row_id, rpp).val.d, update_data), FALSE).val

\* The process stops inside the __modify_data_file of update_row(row_id,
\* data) or delete_row(row_id), after one of its steps; the Table object is
\* gone with it.
Rewrites ==
    { [op |-> "update_row", row_id |-> r, data |-> d] :
        r \in RowIds, d \in UpdateData }
    \cup { [op |-> "delete_row", row_id |-> r, data |-> EmptyDict] : r \in RowIds }

CrashInModify(call) ==
    /\ opened
    /\ NoLeftovers(files)
    /\ IF call.op = "update_row"
       THEN update_row(files, call.row_id, call.data, rows_per_page).err = "none"
       ELSE delete_row(files, call.row_id, rows_per_page).err = "none"
    /\ \E steps \in
           { ModifySteps(files, data_file_for_row_id(call.row_id, rows_per_page),
                         call.row_id,
                         IF call.op = "update_row"
                         THEN UpdateArgument(files, call.row_id, call.data,
                                             rows_per_page)
                         ELSE EmptyDict,
                         IF call.op = "update_row" THEN "update" ELSE "delete") } :
         \E k \in 1..Len(steps) :
             /\ files' = steps[k].files
             /\ last' = Result("crash", call, "none", steps[k].step)
    /\ opened' = FALSE
    /\ current_row' = 0
    /\ n_single' = Untracked
    /\ UNCHANGED <<rows_per_page, assigned,
                 writers>>

\* ---------------------------------------- the process stops in a vacuum
\* The table after each insert of the replay of `lines` (line 481), until
\* one raises: a sequence of [files, current_row, step].
RECURSIVE ReplayLineSteps(_, _, _, _)
ReplayLineSteps(fs, cur, rpp, lines) ==
    LET Inserted(res) ==
            IF res.err # "none" THEN <<>>
            ELSE <<[files |-> res.files, current_row |-> res.current_row,
                    step |-> "replayed"]>>
                 \o ReplayLineSteps(res.files, res.current_row, rpp, Tail(lines))
    IN  IF lines = <<>> THEN <<>>
        ELSE IF Head(lines) = BlankLine
        THEN ReplayLineSteps(fs, cur, rpp, Tail(lines))
        ELSE Inserted(insert_row(fs, cur, rpp, Head(lines).d))

\* The table after each step of the loop of lines 476-483: the inserts of a
\* .vacu file, then its removal ("removed", "done" for the last file).  The
\* steps end where an insert raises.
RECURSIVE ReplayFileSteps(_, _, _, _)
ReplayFileSteps(fs, cur, rpp, location) ==
    LET Removed(removed, row) ==
            <<[files |-> removed, current_row |-> row,
               step |-> IF Tail(location) = <<>> THEN "done" ELSE "removed"]>>
            \o ReplayFileSteps(removed, row, rpp, Tail(location))
        Replayed(steps, lines, vacu) ==
            IF Len(steps) < Cardinality({ i \in 1..Len(lines) :
                                            lines[i] # BlankLine })
            THEN steps
            ELSE IF steps = <<>> THEN Removed(RemoveFile(fs, vacu), cur)
            ELSE steps \o Removed(RemoveFile(steps[Len(steps)].files, vacu),
                                  steps[Len(steps)].current_row)
    IN  IF location = <<>> THEN <<>>
        ELSE Replayed(ReplayLineSteps(fs, cur, rpp, fs[VacuPath(Head(location))]),
                      fs[VacuPath(Head(location))], VacuPath(Head(location)))

\* The table after each step of Table.vacuum: the renames of lines 471-473
\* ("renamed"), then the replay with current_row reset.
VacuumSteps(fs, cur, rpp, o) ==
    LET Listed(location) ==
            [k \in 1..Len(location) |->
                [files |-> RenameAll(fs, SubSeq(location, 1, k)),
                 current_row |-> cur, step |-> "renamed"]]
            \o ReplayFileSteps(RenameAll(fs, location), 0, rpp, location)
    IN  Listed(sorted_location(fs, o, FALSE))

\* The process stops inside vacuum(), after one of its steps.
CrashInVacuum ==
    /\ opened
    /\ NoLeftovers(files)
    /\ \E o \in Orders(files) :
         \E steps \in {VacuumSteps(files, current_row, rows_per_page, o)} :
           \E k \in 1..Len(steps) :
               /\ files' = steps[k].files
               /\ last' = Result("crash_vacuum", 0, "none", steps[k].step)
    /\ opened' = FALSE
    /\ current_row' = 0
    /\ n_single' = Untracked
    /\ UNCHANGED <<rows_per_page, assigned,
                 writers>>

\* ---------------------------------------------------------------- state
Init ==
    /\ rows_per_page = RowsPerPage
    /\ files = [p \in {DefinitionFile} |-> <<Definition(rows_per_page)>>]
    /\ current_row = 0
    /\ opened = TRUE
    /\ last = [op |-> "create_table", arg |-> 0, err |-> "none", val |-> 0,
               pre_row |-> 0]
    /\ n_single = [n |-> 0, reopened |-> FALSE]
    /\ assigned = NotCounted
    /\ writers = NoWriters

Next ==
    \/ \E data \in ValidRows \cup InvalidRows : Insert(data)
    \/ \E data \in Batches : InsertMany(data)
    \/ \E row_id \in RowIds, data \in UpdateData : UpdateRow(row_id, data)
    \/ \E row_id \in RowIds : DeleteRow(row_id)
    \/ \E queries \in Predicates, data \in UpdateData : Update(queries, data)
    \/ \E queries \in Predicates : Delete(queries)
    \/ \E row_id \in RowIds : FindRow(row_id)
    \/ \E queries \in Predicates : Query(queries)
    \/ \E queries \in Predicates : Find(queries)
    \/ \E queries \in Predicates \cup {NoPredicate} : Scan(queries)
    \/ Truncate
    \/ Vacuum
    \/ Reopen
    \/ \E call \in Rewrites : CrashInModify(call)

Spec == Init /\ [][Next]_vars

\* --------------------------------------- the writes and the stops alone
NextCrash ==
    \/ \E data \in ValidRows \cup InvalidRows : Insert(data)
    \/ \E data \in Batches : InsertMany(data)
    \/ \E row_id \in RowIds, data \in UpdateData : UpdateRow(row_id, data)
    \/ \E row_id \in RowIds : DeleteRow(row_id)
    \/ Truncate
    \/ Vacuum
    \/ Reopen
    \/ \E call \in Rewrites : CrashInModify(call)
    \/ CrashInVacuum

SpecCrash == Init /\ [][NextCrash]_vars

\* ------------------------------------ the row ids the inserts hand out
\* The table from its creation on under inserts, updates, deletes and
\* open_table, with the row ids given to rows counted in `assigned`.
InitIds ==
    /\ rows_per_page = RowsPerPage
    /\ files = [p \in {DefinitionFile} |-> <<Definition(rows_per_page)>>]
    /\ current_row = 0
    /\ opened = TRUE
    /\ last = [op |-> "create_table", arg |-> 0, err |-> "none", val |-> 0,
               pre_row |-> 0]
    /\ n_single = [n |-> 0, reopened |-> FALSE]
    /\ assigned = [counted |-> TRUE, ids |-> {}, twice |-> {}]
    /\ writers = NoWriters

NextIds ==
    \/ \E data \in ValidRows \cup InvalidRows : Insert(data)
    \/ \E data \in Batches : InsertMany(data)
    \/ \E row_id \in RowIds, data \in UpdateData : UpdateRow(row_id, data)
    \/ \E row_id \in RowIds : DeleteRow(row_id)
    \/ \E queries \in Predicates, data \in UpdateData : Update(queries, data)
    \/ \E queries \in Predicates : Delete(queries)
    \/ Reopen

SpecIds == InitIds /\ [][NextIds]_vars

\* ------------------------------------- the validator and what is stored
\* Rows, lists and update data the schema does not allow: a bool for the int
\* column, a str for it, a column the table does not have, a str longer
\* than max_length.
OddRows ==
    { [name |-> StrV(1), age |-> BoolV(1)],
      [name |-> StrV(1), age |-> StrV(1)],
      [name |-> StrV(1), what |-> IntV(1)],
      [name |-> LongStr, age |-> IntV(1)] }

\* Lists for insert(): one with a row the validator rejects, one with a bool
\* for the int column, one whose first row omits a column.
OddBatches ==
    { << [name |-> StrV(1), age |-> IntV(1)],
         [name |-> StrV(1), age |-> StrV(1)] >>,
      << [name |-> StrV(1), age |-> IntV(1)],
         [name |-> StrV(2), age |-> BoolV(1)] >>,
      << [name |-> StrV(2)],
         [name |-> StrV(1), age |-> IntV(1)] >> }

OddUpdates ==
    { [age |-> BoolV(1)], [age |-> StrV(1)], [what |-> IntV(1)],
      [name |-> LongStr] }

NextValid ==
    \/ \E data \in OddRows \cup {[name |-> StrV(1)]} : Insert(data)
    \/ \E data \in OddBatches : InsertMany(data)
    \/ \E row_id \in RowIds, data \in UpdateData \cup OddUpdates :
         UpdateRow(row_id, data)
    \/ \E row_id \in RowIds : DeleteRow(row_id)
    \/ Reopen

SpecValid == Init /\ [][NextValid]_vars

\* ------------------------------------------- lists that span the pages
\* rows_per_page of the table the long lists are inserted into.
BatchPageSize == 3
\* Longest list handed to insert() there.
LongBatch == 4

InitBatch ==
    /\ rows_per_page = BatchPageSize
    /\ files = [p \in {DefinitionFile} |-> <<Definition(rows_per_page)>>]
    /\ current_row = 0
    /\ opened = TRUE
    /\ last = [op |-> "create_table", arg |-> 0, err |-> "none", val |-> 0,
               pre_row |-> 0]
    /\ n_single = [n |-> 0, reopened |-> FALSE]
    /\ assigned = NotCounted
    /\ writers = NoWriters

NextBatch ==
    \/ \E data \in ValidRows : Insert(data)
    \/ \E data \in { Batch(k) : k \in 1..LongBatch } : InsertMany(data)
    \/ \E row_id \in RowIds : DeleteRow(row_id)
    \/ Reopen

SpecBatch == InitBatch /\ [][NextBatch]_vars

\* ------------------------------------------------- a write that is short
\* __modify_data_file when output.write stores less than it was handed: the
\* temp file holds the first k of the lines it was to get.  The code reads
\* nothing back (line 740): the page is removed, the temp file renamed to it
\* and True returned.
modify_data_file_short(fs, path, row_id, data, action, k) ==
    LET Short(lines, temp_path) ==
            [files |-> RenameFile(RemoveFile(WriteFile(fs, temp_path,
                                                       SliceTo(lines, k)),
                                             path),
                                  temp_path, path),
             err |-> "none",
             lines |-> lines]
    IN  Short(ModifiedLines(fs[path], row_id, data, action), TempPath(path))

\* update_row(row_id, data) or delete_row(row_id) of a row the call finds,
\* with a write that is short.
ShortWrite(call) ==
    /\ opened
    /\ NoLeftovers(files)
    /\ IF call.op = "update_row"
       THEN update_row(files, call.row_id, call.data, rows_per_page).err = "none"
       ELSE delete_row(files, call.row_id, rows_per_page).err = "none"
    /\ \E k \in 0..rows_per_page :
         \E res \in
           { modify_data_file_short(
                 files, data_file_for_row_id(call.row_id, rows_per_page),
                 call.row_id,
                 IF call.op = "update_row"
                 THEN UpdateArgument(files, call.row_id, call.data, rows_per_page)
                 ELSE EmptyDict,
                 IF call.op = "update_row" THEN "update" ELSE "delete", k) } :
             /\ k < Len(res.lines)
             /\ files' = res.files
             /\ last' = Result("short_write", call, res.err, Len(res.lines) - k)
    /\ n_single' = Untracked
    /\ UNCHANGED <<current_row, opened, rows_per_page, assigned,
                 writers>>

NextShort ==
    \/ \E data \in ValidRows : Insert(data)
    \/ \E row_id \in RowIds, data \in UpdateData : UpdateRow(row_id, data)
    \/ \E row_id \in RowIds : DeleteRow(row_id)
    \/ \E call \in Rewrites : ShortWrite(call)
    \/ Reopen

SpecShort == Init /\ [][NextShort]_vars

\* ------------------------------------- two processes rewrite one page
\* The steps of __modify_data_file a process takes one at a time; nothing
\* in the code keeps another process out between them.

\* A copy that leaves the lines as they are.
copy_step_unchanged(fs, path, row_id, data, action) ==
    WriteFile(fs, TempPath(path), fs[path])

\* Lines 713-738: the page is opened and copied, changed, into the temp
\* file, which open(temp_path, 'w') creates or empties.
copy_step(fs, path, row_id, data, action) ==
    WriteFile(fs, TempPath(path), ModifiedLines(fs[path], row_id, data, action))

\* The page holds the change of `call`.
Applied(fs, path, call) ==
    /\ path \in DOMAIN fs
    /\ IF call.op = "update_row"
       THEN \E i \in 1..Len(fs[path]) :
                /\ fs[path][i] # BlankLine
                /\ fs[path][i].r = call.row_id
                /\ \A c \in DOMAIN call.data : fs[path][i].d[c] = call.data[c]
       ELSE \A i \in 1..Len(fs[path]) :
                fs[path][i] = BlankLine \/ fs[path][i].r # call.row_id

\* The steps between which a process is inside the call.
Inside == {"checked", "copied", "removed"}

\* writers after process w has moved to `at`.
Moved(w, at) ==
    LET Together(now) ==
            [at |-> now,
             overlapped |-> \/ writers.overlapped
                            \/ \A v \in Writers : now[v].pc \in Inside]
    IN  Together([writers.at EXCEPT ![w] = at])

\* Process w calls update_row(row_id, data) or delete_row(row_id) on a row
\* of the first page: find_row, the merge and the validation of update_row
\* (lines 336-343), and the file_exists test of line 706.
WriterCheck(w, call) ==
    /\ writers.at[w].pc = "idle"
    /\ IF call.op = "update_row"
       THEN update_row(files, call.row_id, call.data, rows_per_page).err = "none"
       ELSE /\ delete_row(files, call.row_id, rows_per_page).err = "none"
            /\ \E i \in 1..Len(files[data_file_for_row_id(call.row_id,
                                                           rows_per_page)]) :
                 files[data_file_for_row_id(call.row_id, rows_per_page)][i].r
                   = call.row_id
    /\ writers' = Moved(w, [pc |-> "checked", call |-> call,
                            data |-> IF call.op = "update_row"
                                     THEN UpdateArgument(files, call.row_id,
                                                         call.data, rows_per_page)
                                     ELSE EmptyDict,
                            applied |-> FALSE])
    /\ last' = Result("rewrite", <<w, call>>, "none", "checked")
    /\ UNCHANGED <<files, current_row, opened, rows_per_page, n_single, assigned>>

\* The page of the call process w is in.
PathOf(w) == data_file_for_row_id(writers.at[w].call.row_id, rows_per_page)

\* Lines 713-738; open(path, 'r') raises when the page is not there.
WriterCopy(w) ==
    /\ writers.at[w].pc = "checked"
    /\ IF PathOf(w) \in DOMAIN files
       THEN /\ files' = copy_step(files, PathOf(w), writers.at[w].call.row_id,
                                  writers.at[w].data,
                                  IF writers.at[w].call.op = "update_row"
                                  THEN "update" ELSE "delete")
            /\ writers' = Moved(w, [writers.at[w] EXCEPT !.pc = "copied"])
            /\ last' = Result("rewrite", <<w, writers.at[w].call>>, "none",
                              "copied")
       ELSE /\ files' = files
            /\ writers' = Moved(w, [writers.at[w] EXCEPT !.pc = "failed"])
            /\ last' = Result("rewrite", <<w, writers.at[w].call>>, "OSError",
                              "copied")
    /\ UNCHANGED <<current_row, opened, rows_per_page, n_single, assigned>>

\* Line 741, os.remove(path), which raises when the page is not there.
WriterRemove(w) ==
    /\ writers.at[w].pc = "copied"
    /\ IF PathOf(w) \in DOMAIN files
       THEN /\ files' = RemoveFile(files, PathOf(w))
            /\ writers' = Moved(w, [writers.at[w] EXCEPT !.pc = "removed"])
            /\ last' = Result("rewrite", <<w, writers.at[w].call>>, "none",
                              "removed")
       ELSE /\ files' = files
            /\ writers' = Moved(w, [writers.at[w] EXCEPT !.pc = "failed"])
            /\ last' = Result("rewrite", <<w, writers.at[w].call>>, "OSError",
                              "removed")
    /\ UNCHANGED <<current_row, opened, rows_per_page, n_single, assigned>>

\* Line 742, os.rename(temp_path, path), which raises when the temp file is
\* not there, and the return of True.
WriterRename(w) ==
    /\ writers.at[w].pc = "removed"
    /\ IF TempPath(PathOf(w)) \in DOMAIN files
       THEN /\ files' = RenameFile(files, TempPath(PathOf(w)), PathOf(w))
            /\ writers' = Moved(w, [writers.at[w] EXCEPT
                                      !.pc = "done",
                                      !.applied = Applied(files', PathOf(w),
                                                          writers.at[w].call)])
            /\ last' = Result("rewrite", <<w, writers.at[w].call>>, "none",
                              "renamed")
       ELSE /\ files' = files
            /\ writers' = Moved(w, [writers.at[w] EXCEPT !.pc = "failed"])
            /\ last' = Result("rewrite", <<w, writers.at[w].call>>, "OSError",
                              "renamed")
    /\ UNCHANGED <<current_row, opened, rows_per_page, n_single, assigned>>

\* The rows of the first page are inserted before the processes start.
InsertFirst(data) ==
    /\ \A w \in Writers : writers.at[w].pc = "idle"
    /\ current_row < rows_per_page
    /\ Insert(data)

NextWriters ==
    \/ \E data \in ValidRows : InsertFirst(data)
    \/ \E w \in Writers, call \in Rewrites :
         call.row_id \in 1..rows_per_page /\ WriterCheck(w, call)
    \/ \E w \in Writers : WriterCopy(w)
    \/ \E w \in Writers : WriterRemove(w)
    \/ \E w \in Writers : WriterRename(w)

SpecWriters == Init /\ [][NextWriters]_vars

\* ------------------------------------------ a table with its own settings
\* None for an argument that is not given.
NotGiven == 0
\* The rows_per_page and max_rows a table is created with of its own.
RowsPerPageGiven == 3
MaxRowsGiven == 2

\* Table.create_table (lines 154-203): the definition.json it writes.  The
\* database's rows_per_page and max_rows are RowsPerPage and max_rows.
table_create_table(rows_per_page_arg, max_rows_arg) ==
    DefinitionWith(IF rows_per_page_arg = NotGiven THEN RowsPerPage
                   ELSE rows_per_page_arg,
                   IF max_rows_arg = NotGiven THEN max_rows ELSE max_rows_arg)

\* Database.create_table (lines 111-120): rows_per_page is resolved and
\* handed on, max_rows is handed on as self.max_rows.
database_create_table(rows_per_page_arg, max_rows_arg) ==
    table_create_table(IF rows_per_page_arg = NotGiven THEN RowsPerPage
                       ELSE rows_per_page_arg,
                       max_rows)

\* self.max_rows of a Table object: the value Table.create_table wrote to
\* definition.json (line 171), read back by open_table (line 221).
TableMaxRows(fs) == fs[DefinitionFile][1].settings.max_rows

\* db.create_table(name, columns, rows_per_page, max_rows); the Table object
\* it builds is dropped, the caller opens the table next.
CreateTable(rows_per_page_arg, max_rows_arg) ==
    /\ DefinitionFile \notin DOMAIN files
    /\ files' = [p \in {DefinitionFile} |->
                   <<database_create_table(rows_per_page_arg, max_rows_arg)>>]
    /\ last' = Result("create_table", <<rows_per_page_arg, max_rows_arg>>,
                      "none", 0)
    /\ UNCHANGED <<current_row, opened, rows_per_page, n_single, assigned,
                 writers>>

\* db.open_table(name) on a table that exists.
OpenCreated == DefinitionFile \in DOMAIN files /\ Reopen

\* table.insert(data) with the table's own max_rows.
InsertInto(data) ==
    /\ opened
    /\ NoLeftovers(files)
    /\ current_row < TableMaxRows(files) + MaxOverflow
    /\ \E res \in {insert_row_within(files, current_row, rows_per_page,
                                     TableMaxRows(files), data)} :
           /\ files' = res.files
           /\ current_row' = res.current_row
           /\ last' = Result("insert", data, res.err, res.err = "none")
    /\ n_single' = Untracked
    /\ UNCHANGED <<opened, rows_per_page, assigned,
                 writers>>

\* A database without a table.
InitCreate ==
    /\ rows_per_page = 0
    /\ files = [p \in {} |-> <<>>]
    /\ current_row = 0
    /\ opened = FALSE
    /\ last = [op |-> "create", arg |-> 0, err |-> "none", val |-> 0,
               pre_row |-> 0]
    /\ n_single = Untracked
    /\ assigned = NotCounted
    /\ writers = NoWriters

NextCreate ==
    \/ \E rows_per_page_arg \in {NotGiven, RowsPerPageGiven},
          max_rows_arg \in {NotGiven, MaxRowsGiven, max_rows + MaxRowsGiven} :
         CreateTable(rows_per_page_arg, max_rows_arg)
    \/ OpenCreated
    \/ \E data \in ValidRows : InsertInto(data)

SpecCreate == InitCreate /\ [][NextCreate]_vars

\* ------------------------------------------- page addressing on its own
\* Largest rows_per_page and row id the page addressing is applied to.
MaxPageSize == 6
MaxRowId == 20

InitAddr ==
    /\ rows_per_page \in 1..MaxPageSize
    /\ files = [p \in {DefinitionFile} |-> <<Definition(rows_per_page)>>]
    /\ current_row = 0
    /\ opened = TRUE
    /\ last = [op |-> "create_table", arg |-> 0, err |-> "none", val |-> 0,
               pre_row |-> 0]
    /\ n_single = [n |-> 0, reopened |-> FALSE]
    /\ assigned = NotCounted
    /\ writers = NoWriters

PageFor(row_id) ==
    /\ last' = Result("data_file_for_row_id", row_id, "none",
                      data_file_for_row_id(row_id, rows_per_page))
    /\ UNCHANGED <<files, current_row, opened, rows_per_page, n_single, assigned,
                 writers>>

NextAddr == \E row_id \in 1..MaxRowId : PageFor(row_id)

SpecAddr == InitAddr /\ [][NextAddr]_vars

\* ------------------------------------------------------------ properties
\* The page files of the directory.
PageFiles(fs) == { f \in DOMAIN fs : f.ext = "dat" }

\* The records with id r stored in the page file whose range holds r.
RecordsOf(fs, r) ==
    UNION { { fs[f][i] : i \in { j \in 1..Len(fs[f]) :
                                   fs[f][j] # BlankLine /\ fs[f][j].r = r } } :
            f \in { g \in PageFiles(fs) : g.first <= r /\ r <= g.last } }

\* Row r is live: its page file exists and holds a record with id r.
Live(fs, r) == RecordsOf(fs, r) # {}

\* d holds the values of `data` in its columns and None in every other
\* column of the schema.
HoldsExactly(d, data) ==
    /\ DOMAIN d = DOMAIN columns
    /\ \A c \in DOMAIN d : d[c] = IF c \in DOMAIN data THEN data[c] ELSE Null

Ceil(n, p) == (n + p - 1) \div p

\* C1: a single-row insert of a schema-valid row into a table with
\* current_row = c < max_rows - 1 succeeds, assigns row id c + 1, and
\* find_row(c + 1) then returns the record with r = c + 1 whose d holds
\* exactly the inserted values.
C1_InsertThenFindRow ==
    (last.op = "insert" /\ last.arg \in ValidRows /\ last.pre_row < max_rows - 1)
    => /\ last.err = "none"
       /\ current_row = last.pre_row + 1
       /\ LET found == find_row(files, last.pre_row + 1, rows_per_page)
          IN  /\ found.err = "none"
              /\ found.val # PyNone
              /\ found.val.r = last.pre_row + 1
              /\ HoldsExactly(found.val.d, last.arg)

\* A single insert that opened the second page and is found there.
C1_Witness ==
    /\ last.op = "insert" /\ last.err = "none"
    /\ last.pre_row = rows_per_page
    /\ DOMAIN last.arg # DOMAIN columns
    /\ find_row(files, current_row, rows_per_page).val.r = rows_per_page + 1

\* C2: insert of a list of k >= 1 valid rows with c + k within max_rows sets
\* current_row to c + k, and find_row(c + i) returns the i-th row of the list.
C2_BatchInsertThenFindRow ==
    (last.op = "insert_many" /\ last.pre_row + Len(last.arg) <= max_rows)
    => /\ last.err = "none"
       /\ current_row = last.pre_row + Len(last.arg)
       /\ \A i \in 1..Len(last.arg) :
            LET found == find_row(files, last.pre_row + i, rows_per_page)
            IN  /\ found.err = "none"
                /\ found.val # PyNone
                /\ found.val.r = last.pre_row + i
                /\ \A c \in DOMAIN last.arg[i] : found.val.d[c] = last.arg[i][c]

\* C3: after N successful single-row inserts into the empty table, with
\* open_table in between or not, the data files are exactly the pages
\* [1,P], [P+1,2P], ... up to page ceil(N/P), and current_row = N.
C3_PagesAfterInserts ==
    n_single.n >= 0
    => /\ current_row = n_single.n
       /\ DataFiles(files) =
            { [first |-> (k - 1) * rows_per_page + 1, last |-> k * rows_per_page,
               ext |-> "dat"] : k \in 1..Ceil(n_single.n, rows_per_page) }

\* Three single inserts with an open_table among them: two pages.
C3_Witness ==
    /\ n_single.n = rows_per_page + 1
    /\ n_single.reopened
    /\ last.op = "insert"
    /\ Cardinality(DataFiles(files)) = 2

\* C4: the page computed for row id r >= 1 is data<a>_<b>.dat with
\* a <= r <= b and b - a + 1 = rows_per_page.
C4_PageRange ==
    last.op = "data_file_for_row_id"
    => /\ last.val.first <= last.arg
       /\ last.arg <= last.val.last
       /\ last.val.last - last.val.first + 1 = rows_per_page
       /\ last.val.ext = "dat"

\* The page of the last row id of a page of several rows.
C4_Witness ==
    /\ last.op = "data_file_for_row_id"
    /\ rows_per_page > 1
    /\ last.arg > rows_per_page
    /\ last.arg % rows_per_page = 0
    /\ last.val.last = last.arg

\* C5: find_row(r) fails (the row-not-found exception, or the OSError of
\* opening a page file that does not exist) for every r that is not live,
\* and for r right after a successful delete_row(r).
C5_FindRowNotFound ==
    /\ \A r \in RowIds :
         ~Live(files, r)
         => find_row(files, r, rows_per_page).err \in {"RowNotFound", "OSError"}
    /\ (last.op = "find_row" /\ ~Live(files, last.arg))
       => last.err \in {"RowNotFound", "OSError"}
    /\ (last.op = "delete_row" /\ last.err = "none")
       => find_row(files, last.arg, rows_per_page).err \in {"RowNotFound", "OSError"}

\* find_row on an id at or below current_row whose page exists and no longer
\* holds it.
C5_Witness ==
    /\ last.op = "find_row"
    /\ last.err = "RowNotFound"
    /\ last.arg >= 1 /\ last.arg < current_row
    /\ Live(files, current_row)

NonBlank(lines) == { i \in 1..Len(lines) : lines[i] # BlankLine }

\* C6: delete_row(r) on a live row blanks the row's line in place: the page
\* keeps its number of lines, has one non-blank line less, and every other
\* line stays where it was.
C6_DeleteBlanksInPlace ==
    [][ (last'.op = "delete_row" /\ Live(files, last'.arg))
        => LET page == CHOOSE f \in PageFiles(files) :
                          f.first <= last'.arg /\ last'.arg <= f.last
           IN  /\ page \in DOMAIN files'
               /\ Len(files'[page]) = Len(files[page])
               /\ Cardinality(NonBlank(files'[page]))
                    = Cardinality(NonBlank(files[page])) - 1
               /\ \A i \in 1..Len(files[page]) :
                    (files[page][i] = BlankLine \/ files[page][i].r # last'.arg)
                    => files'[page][i] = files[page][i] ]_vars

AllValues(d) ==
    /\ DOMAIN d = DOMAIN columns
    /\ \A c \in DOMAIN d : d[c] # Null

\* C7: update_row(r, new_data) on a live row whose columns all hold values
\* succeeds, and find_row(r) then returns the previous d with exactly the
\* columns of new_data replaced.
C7_UpdateRowMerges ==
    [][ (/\ last'.op = "update_row"
         /\ Live(files, last'.arg[1])
         /\ \A line \in RecordsOf(files, last'.arg[1]) : AllValues(line.d))
        => LET r == last'.arg[1]
               new_data == last'.arg[2]
               found == find_row(files', r, rows_per_page)
           IN  /\ last'.err = "none"
               /\ found.err = "none"
               /\ found.val # PyNone
               /\ found.val.r = r
               /\ \E old \in RecordsOf(files, r) :
                    /\ DOMAIN found.val.d = DOMAIN old.d
                    /\ \A c \in DOMAIN old.d :
                         found.val.d[c] = IF c \in DOMAIN new_data
                                          THEN new_data[c] ELSE old.d[c] ]_vars

\* An update_row that changed the name of a row and kept its age.
C7_Witness ==
    /\ last.op = "update_row" /\ last.err = "none"
    /\ LET found == find_row(files, last.arg[1], rows_per_page)
       IN  /\ found.err = "none"
           /\ found.val.d = [name |-> StrV(2), age |-> IntV(1)]
    /\ \E f \in PageFiles(files) : \E i \in 1..Len(files[f]) :
         files[f][i].r # last.arg[1] /\ files[f][i].d.name = StrV(1)

\* The places <<file, line number>> of the stored records.
StoredAt(fs) ==
    { <<f, i>> \in DataFiles(fs) \X (1..(2 * max_rows)) :
        i <= Len(fs[f]) /\ fs[f][i] # BlankLine }

\* Value v is acceptable to the predicate's entry: equal to a scalar, a
\* member of a list.
Accepts(entry, v) == IF entry.t = "list" THEN v \in entry.items ELSE v = entry

\* Record d satisfies the predicate on every predicate column.
Satisfies(d, queries) ==
    \A c \in DOMAIN queries : c \in DOMAIN d /\ Accepts(queries[c], d[c])

MatchedAt(fs, queries) ==
    { pl \in StoredAt(fs) : Satisfies(fs[pl[1]][pl[2]].d, queries) }

\* The ids of the rows held by the table whose record satisfies the predicate.
LiveMatching(fs, queries) ==
    { fs[pl[1]][pl[2]].r : pl \in MatchedAt(fs, queries) }

\* C8: in any table state, query with a predicate of scalar values returns
\* exactly the live rows that equal the predicate on every predicate column:
\* K matching rows give K results, each satisfying the predicate, and the
\* empty list when K = 0.
C8_QueryExact ==
    (last.op = "query" /\ last.arg \in ScalarPredicates)
    => /\ last.err = "none"
       /\ Len(last.val) = Cardinality(LiveMatching(files, last.arg))
       /\ \A i \in 1..Len(last.val) : Satisfies(last.val[i], last.arg)

\* The same, in the states whose directory holds no file left by an aborted
\* vacuum.
QueryExactWithoutLeftovers == NoLeftovers(files) => C8_QueryExact

\* q is read before p when the pages are read in descending range order and
\* each page in line order (files with the same range: either order).
ReadBefore(q, p) ==
    \/ q[1].last > p[1].last
    \/ q[1] = p[1] /\ q[2] < p[2]

\* What find is to return for the predicate: None exactly when no stored
\* record matches, else the first matching record of the descending page
\* scan, which is the first element of query's result.
FindFirst ==
    /\ last.err = "none"
    /\ (last.val = PyNone) <=> (MatchedAt(files, last.arg) = {})
    /\ last.val # PyNone
       => /\ \E p \in MatchedAt(files, last.arg) :
               /\ last.val = files[p[1]][p[2]].d
               /\ \A q \in MatchedAt(files, last.arg) : ~ReadBefore(q, p)
          /\ \E o \in Orders(files) :
               last.val = query(files, last.arg, o).val[1]

\* C9: find(predicate) returns the first matching row met when the pages are
\* scanned in descending range order, lines in file order, which is the first
\* element of query(predicate), and None exactly when no live row matches.
C9_FindFirst == last.op = "find" => FindFirst

\* The same, for the predicates whose values are all scalars.
FindFirstScalar ==
    (last.op = "find" /\ last.arg \in ScalarPredicates) => FindFirst

\* A find with matching rows in two pages that returned the row of the
\* higher page.
FindFirstScalarReached ==
    /\ last.op = "find" /\ last.val # PyNone
    /\ \E p, q \in MatchedAt(files, last.arg) :
         /\ p[1].last < q[1].last
         /\ files[p[1]][p[2]].d # files[q[1]][q[2]].d
         /\ last.val = files[q[1]][q[2]].d

\* C10: a predicate column may hold a list of acceptable values; a record
\* matches iff its value is in the list, for every predicate column: query
\* with such a predicate returns the records that match.
C10_ListPredicate ==
    (last.op = "query" /\ last.arg \in ListPredicates)
    => /\ last.err = "none"
       /\ Len(last.val) = Cardinality(MatchedAt(files, last.arg))
       /\ \A i \in 1..Len(last.val) : Satisfies(last.val[i], last.arg)

\* The places <<page file, line number>> of the records of the page files.
PagePlaces(fs) ==
    { <<f, i>> \in PageFiles(fs) \X (1..(2 * max_rows)) :
        i <= Len(fs[f]) /\ fs[f][i] # BlankLine }

\* q comes before p in ascending page-range order, line order within a page.
PlaceBefore(q, p) ==
    \/ q[1].last < p[1].last
    \/ q[1] = p[1] /\ q[2] < p[2]

\* The position of the record at place p in that order.
Rank(fs, p) == 1 + Cardinality({ q \in PagePlaces(fs) : PlaceBefore(q, p) })

\* val is the d of every record of the page files exactly once, in ascending
\* page-range order and in line order within each page.
ScanOrder(val, fs) ==
    /\ Len(val) = Cardinality(PagePlaces(fs))
    /\ \A p \in PagePlaces(fs) : val[Rank(fs, p)] = fs[p[1]][p[2]].d

\* C11: scan() without a predicate yields the d of every live row exactly
\* once, in ascending page-range order and in file line order within each
\* page, skipping blank lines, and then ends.
C11_ScanAll ==
    (last.op = "scan" /\ last.arg = NoPredicate)
    => /\ last.err = "none"
       /\ ScanOrder(last.val, files)

\* The same, in the states whose directory holds no file left by an aborted
\* vacuum.
ScanAllWithoutLeftovers == NoLeftovers(files) => C11_ScanAll

\* A scan over two pages and a deleted row in between.
ScanAllReached ==
    /\ last.op = "scan" /\ last.arg = NoPredicate /\ NoLeftovers(files)
    /\ Len(last.val) >= 2
    /\ \E p, q \in PagePlaces(files) :
         /\ p[1].last < q[1].last
         /\ files[p[1]][p[2]].d # files[q[1]][q[2]].d
         /\ files[q[1]][q[2]].r > files[p[1]][p[2]].r + 1
         /\ Rank(files, q) = Rank(files, p) + 1

\* C12: scan(predicate) with a predicate of scalar values over one or more
\* columns yields exactly the live rows that satisfy the predicate on every
\* predicate column, each once, and no row that fails a predicate column.
C12_ScanPredicate ==
    (last.op = "scan" /\ last.arg \in ScalarPredicates)
    => /\ last.err = "none"
       /\ Len(last.val)
            = Cardinality({ p \in PagePlaces(files) :
                              Satisfies(files[p[1]][p[2]].d, last.arg) })
       /\ \A i \in 1..Len(last.val) : Satisfies(last.val[i], last.arg)

\* The same for the predicates of one column, without leftover files.
ScanOneColumn ==
    (/\ last.op = "scan" /\ last.arg \in ScalarPredicates
     /\ Cardinality(DOMAIN last.arg) = 1 /\ NoLeftovers(files))
    => C12_ScanPredicate

\* C13: on a table built by valid single-row inserts (rows with omitted
\* columns included) holding L live rows, vacuum completes; afterwards
\* current_row = L, no .vacu file remains, and find_row(j) returns the d of
\* the j-th live row of the ascending scan order before the vacuum.
C13_VacuumCompacts ==
    [][ (last'.op = "vacuum" /\ n_single.n >= 0)
        => /\ last'.err = "none"
           /\ current_row' = Cardinality(PagePlaces(files))
           /\ \A f \in DOMAIN files' : f.ext # "vacu"
           /\ \A p \in PagePlaces(files) :
                LET found == find_row(files', Rank(files, p), rows_per_page)
                IN  /\ found.err = "none"
                    /\ found.val # PyNone
                    /\ found.val.d = files[p[1]][p[2]].d ]_vars

\* C14: truncate on a table in any state leaves no data file and
\* current_row = 0, leaves the definition file as it was, and a single-row
\* insert of a valid row that follows is given row id 1.
C14_Truncate ==
    [][ /\ last'.op = "truncate"
           => /\ DOMAIN files' = {DefinitionFile}
              /\ files'[DefinitionFile] = files[DefinitionFile]
              /\ current_row' = 0
        /\ (last.op = "truncate" /\ last'.op = "insert" /\ last'.arg \in ValidRows)
           => /\ last'.err = "none"
              /\ current_row' = 1
              /\ LET found == find_row(files', 1, rows_per_page)
                 IN  /\ found.err = "none"
                     /\ found.val # PyNone
                     /\ found.val.r = 1
                     /\ HoldsExactly(found.val.d, last'.arg) ]_vars

\* A truncate of a table of more than one page.
C14_Witness ==
    /\ last.op = "truncate"
    /\ last.pre_row > rows_per_page
    /\ DOMAIN files = {DefinitionFile}
    /\ current_row = 0

\* The highest row id stored in a page file, 0 when none is.
MaxStored(fs) ==
    LET ids == { fs[p[1]][p[2]].r : p \in PagePlaces(fs) }
    IN  IF ids = {} THEN 0 ELSE CHOOSE m \in ids : \A x \in ids : x <= m

\* C15: after every completed insert, update, delete, truncate and vacuum on
\* an open table, whether it succeeded or failed, current_row is the highest
\* row id stored in any page file, or 0 if no row is stored.
C15_CursorIsHighest ==
    (opened /\ last.op \in {"insert", "insert_many", "update_row", "delete_row",
                             "update", "delete", "truncate", "vacuum"})
    => current_row = MaxStored(files)

\* C16: in a sequence of inserts, updates, deletes and open_table without
\* vacuum and truncate, no row id is given to a row twice.
C16_NeverReused == assigned.twice = {}

\* C17: no two records stored in the page files of the table carry the same
\* row id.
C17_UniqueIds ==
    \A p, q \in PagePlaces(files) :
        p # q => files[p[1]][p[2]].r # files[q[1]][q[2]].r

\* Records in two pages, the last of them inserted into a table with a
\* deleted row.
C17_Witness ==
    /\ last.op = "insert" /\ last.err = "none"
    /\ Cardinality(PagePlaces(files)) >= 2
    /\ Cardinality(PageFiles(files)) >= 2
    /\ \E r \in 1..(current_row - 1) : ~Live(files, r)

\* C18: open_table fails with the corruption-guard error when the table
\* directory holds a file ending in .temp or .vacu, and succeeds when it
\* holds none.
C18_CorruptionGuard ==
    last.op = "open_table"
    => IF \E f \in DOMAIN files : f.ext \in {"temp", "vacu"}
       THEN last.err = "CorruptionGuard" /\ ~opened
       ELSE last.err = "none" /\ opened

\* An open_table refused for a .vacu file left by a vacuum.
C18_Witness ==
    /\ last.op = "open_table"
    /\ last.err = "CorruptionGuard"
    /\ \E f \in DOMAIN files : f.ext = "vacu"
    /\ \A f \in DOMAIN files : f.ext # "temp"

\* The steps of a rewrite before the rename of the temp file.
BeforeRename == {"created", "copying", "copied", "removed"}

\* The page of the row the stopped rewrite was about is in the directory
\* with the content it had before.
OriginalKept(before, after, call) ==
    LET path == data_file_for_row_id(call.row_id, rows_per_page)
    IN  /\ path \in DOMAIN after
        /\ after[path] = before[path]

\* C19: during update_row / delete_row, at every step before the temp file
\* is renamed into place, the original page file exists with its content of
\* before the operation.
C19_OriginalUntilRename ==
    [][ (last'.op = "crash" /\ last'.val \in BeforeRename)
        => OriginalKept(files, files', last'.arg) ]_vars

\* The same for the steps before the original is removed.
OriginalUntilRemove ==
    [][ (last'.op = "crash" /\ last'.val \in {"created", "copying", "copied"})
        => OriginalKept(files, files', last'.arg) ]_vars

\* C20: when the process stops while update_row / delete_row is copying the
\* page into its temp file, the next open_table succeeds and every read
\* returns the data of before the operation.
C20_CrashInCopyInvisible ==
    [][ (last'.op = "crash" /\ last'.val \in {"created", "copying"})
        => /\ open_table(files') = "none"
           /\ \A r \in RowIds :
                find_row(files', r, rows_per_page) = find_row(files, r, rows_per_page)
           /\ \A o \in Orders(files') :
                \E o2 \in Orders(files) :
                  scan(files', NoPredicate, o) = scan(files, NoPredicate, o2) ]_vars

\* C21: when vacuum is interrupted after its first rename and before it has
\* removed its last .vacu file, a .vacu file remains and the next open_table
\* fails with the corruption guard.
C21_VacuumInterrupted ==
    (last.op = "crash_vacuum" /\ last.val # "done")
    => /\ \E f \in DOMAIN files : f.ext = "vacu"
       /\ open_table(files) = "CorruptionGuard"

\* A vacuum stopped after the removal of its first .vacu file, with a
\* refilled page next to the .vacu file of the second.
C21_Witness ==
    /\ last.op = "crash_vacuum" /\ last.val = "removed"
    /\ \E f \in PageFiles(files) : Len(files[f]) = rows_per_page
    /\ \E f \in DOMAIN files : f.ext = "vacu" /\ Len(files[f]) > 0

\* C22: a single-row insert of a valid row into a table with current_row = c
\* succeeds when c + 1 <= max_rows and fails, with TableFull, only when
\* c + 1 > max_rows.
C22_TableFullExactly ==
    (last.op = "insert" /\ last.arg \in ValidRows)
    => /\ (last.err = "none") <=> (last.pre_row + 1 <= max_rows)
       /\ (last.err = "TableFull") <=> (last.pre_row + 1 > max_rows)

\* The same with the limit the code applies, c + 1 < max_rows.
TableFullOneEarly ==
    (last.op = "insert" /\ last.arg \in ValidRows)
    => /\ (last.err = "none") <=> (last.pre_row + 1 < max_rows)
       /\ (last.err = "TableFull") <=> (last.pre_row + 1 >= max_rows)

\* The predicate of the update or delete call recorded in l.
PredicateOf(l) == IF l.op = "update" THEN l.arg[1] ELSE l.arg

\* C23: update(predicate, data) and delete(predicate) whose predicate
\* matches no live row fail with the no-match error and leave every file
\* and current_row as they were.
C23_NoMatch ==
    [][ (/\ last'.op \in {"update", "delete"}
         /\ MatchedAt(files, PredicateOf(last')) = {})
        => /\ last'.err = "NoMatch"
           /\ files' = files
           /\ current_row' = current_row ]_vars

\* The same for the predicates whose values are all scalars.
NoMatchScalar ==
    [][ (/\ last'.op \in {"update", "delete"}
         /\ PredicateOf(last') \in ScalarPredicates
         /\ MatchedAt(files, PredicateOf(last')) = {})
        => /\ last'.err = "NoMatch"
           /\ files' = files
           /\ current_row' = current_row ]_vars

\* C24: delete(predicate) whose predicate matches a live row succeeds and
\* removes exactly the matching rows: none of them is found afterwards, and
\* every other row is stored as before.
C24_DeleteMatching ==
    [][ (last'.op = "delete" /\ MatchedAt(files, last'.arg) # {})
        => /\ last'.err = "none"
           /\ MatchedAt(files', last'.arg) = {}
           /\ \A p \in PagePlaces(files) :
                LET line == files[p[1]][p[2]]
                IN  IF Satisfies(line.d, last'.arg)
                    THEN find_row(files', line.r, rows_per_page).err # "none"
                    ELSE line \in RecordsOf(files', line.r) ]_vars

\* C25: update(predicate, data) whose predicate matches a live row applies
\* the update_row merge of data to every matching row and to no other row;
\* the row ids and the places of the records stay as they were.
C25_UpdateMatching ==
    [][ (last'.op = "update" /\ MatchedAt(files, last'.arg[1]) # {})
        => /\ last'.err = "none"
           /\ DOMAIN files' = DOMAIN files
           /\ \A f \in PageFiles(files) : Len(files'[f]) = Len(files[f])
           /\ \A p \in PagePlaces(files) :
                LET line == files[p[1]][p[2]]
                IN  files'[p[1]][p[2]] =
                      IF Satisfies(line.d, last'.arg[1])
                      THEN [r |-> line.r, d |-> DictUpdate(line.d, last'.arg[2])]
                      ELSE line ]_vars

\* The same when the predicate's values are scalars and every matching
\* record holds a value in every column and lies in the page of its id.
UpdateMatchingWhole ==
    [][ (/\ last'.op = "update"
         /\ last'.arg[1] \in ScalarPredicates
         /\ MatchedAt(files, last'.arg[1]) # {}
         /\ \A p \in MatchedAt(files, last'.arg[1]) :
              /\ AllValues(files[p[1]][p[2]].d)
              /\ Live(files, files[p[1]][p[2]].r))
        => /\ last'.err = "none"
           /\ DOMAIN files' = DOMAIN files
           /\ \A f \in PageFiles(files) : Len(files'[f]) = Len(files[f])
           /\ \A p \in PagePlaces(files) :
                LET line == files[p[1]][p[2]]
                IN  files'[p[1]][p[2]] =
                      IF Satisfies(line.d, last'.arg[1])
                      THEN [r |-> line.r, d |-> DictUpdate(line.d, last'.arg[2])]
                      ELSE line ]_vars

\* C26: delete_row(r) fails with the row-not-found error whenever r is not
\* a live row: when r's page file does not exist, and when it exists and
\* holds no record with id r.
C26_DeleteRowNotFound ==
    [][ (last'.op = "delete_row" /\ ~Live(files, last'.arg))
        => last'.err = "RowNotFound" ]_vars

\* The same for the rows whose page file does not exist.
DeleteRowWithoutPage ==
    [][ (/\ last'.op = "delete_row"
         /\ data_file_for_row_id(last'.arg, rows_per_page) \notin DOMAIN files)
        => last'.err = "RowNotFound" /\ files' = files ]_vars

\* C27: update_row(r, data) fails whenever r is not a live row (page
\* missing, or page present without a record with id r), creates no temp
\* file and leaves every file and current_row as they were.
C27_UpdateRowNotLive ==
    [][ (last'.op = "update_row" /\ ~Live(files, last'.arg[1]))
        => /\ last'.err # "none"
           /\ files' = files
           /\ \A f \in DOMAIN files' : f.ext # "temp"
           /\ current_row' = current_row ]_vars

\* An update_row refused for a row that was deleted from a page that is
\* still there.
C27_Witness ==
    /\ last.op = "update_row"
    /\ last.err = "RowNotFound"
    /\ data_file_for_row_id(last.arg[1], rows_per_page) \in DOMAIN files
    /\ ~Live(files, last.arg[1])

\* The schema allows `value` in `column`: the column exists, the value is
\* of the column's declared type, and a str is no longer than max_length.
Allowed(column, value) ==
    /\ lower(column) \in DOMAIN columns
    /\ value.t = columns[lower(column)].data_type
    /\ value.t = "str" => value.n <= columns[lower(column)].max_length

NotAllowed(data) == \E c \in DOMAIN data : ~Allowed(c, data[c])

ValidationErrors == {"UnknownColumn", "TypeMismatch", "LengthExceeded"}

\* C28: an insert, of one row or of a list, and an update_row of a live row
\* whose data names a column the schema does not have, holds a value of the
\* wrong type or a str longer than max_length fail with the validation
\* error, and every file and current_row are as before the call.
C28_RejectedBeforeWrite ==
    [][ (\/ last'.op = "insert" /\ NotAllowed(last'.arg)
         \/ /\ last'.op = "insert_many"
            /\ \E x \in 1..Len(last'.arg) : NotAllowed(last'.arg[x])
         \/ /\ last'.op = "update_row"
            /\ Live(files, last'.arg[1])
            /\ NotAllowed(last'.arg[2]))
        => /\ last'.err \in ValidationErrors
           /\ files' = files
           /\ current_row' = current_row ]_vars

\* A bool is given for a column declared int.
BoolForInt(data) ==
    \E c \in DOMAIN data :
        /\ lower(c) \in DOMAIN columns
        /\ columns[lower(c)].data_type = "int"
        /\ data[c].t = "bool"

\* The same for the data that holds no bool for an int column.
RejectedUnlessBool ==
    [][ (\/ last'.op = "insert" /\ NotAllowed(last'.arg)
               /\ ~BoolForInt(last'.arg)
         \/ /\ last'.op = "insert_many"
            /\ \E x \in 1..Len(last'.arg) : NotAllowed(last'.arg[x])
            /\ \A x \in 1..Len(last'.arg) : ~BoolForInt(last'.arg[x])
         \/ /\ last'.op = "update_row"
            /\ Live(files, last'.arg[1])
            /\ NotAllowed(last'.arg[2])
            /\ ~BoolForInt(last'.arg[2]))
        => /\ last'.err \in ValidationErrors
           /\ files' = files
           /\ current_row' = current_row ]_vars

\* The row that insert was given for the record with id r.
SuppliedFor(l, r) == IF l.op = "insert" THEN l.arg ELSE l.arg[r - l.pre_row]

\* The records an insert recorded in l has stored hold every schema column,
\* null in the columns the caller did not supply.
FullyQualified(l) ==
    \A p \in PagePlaces(files) :
        LET line == files[p[1]][p[2]]
        IN  line.r \in (l.pre_row + 1)..current_row
            => /\ DOMAIN line.d = DOMAIN columns
               /\ \A c \in DOMAIN columns :
                    c \notin DOMAIN SuppliedFor(l, line.r) => line.d[c] = Null

\* C29: every record stored by a successful insert, of one row or of a
\* list, holds every schema column, the columns the caller did not supply
\* set to null.
C29_FullyQualified ==
    (last.op \in {"insert", "insert_many"} /\ last.err = "none")
    => FullyQualified(last)

\* The same for the single-row insert.
SingleInsertFullyQualified ==
    (last.op = "insert" /\ last.err = "none") => FullyQualified(last)

\* C30: when insert of a list fails at a chunk after the first, the rows of
\* the chunks written before stay committed: find_row returns each of them
\* with the data that was handed in.
C30_PartialBatchKept ==
    [][ (/\ last'.op = "insert_many"
         /\ last'.err \in {"TableFull", "OSError", "TypeError"}
         /\ current_row' > current_row)
        => \A r \in (current_row + 1)..current_row' :
             /\ find_row(files', r, rows_per_page).err = "none"
             /\ find_row(files', r, rows_per_page).val # PyNone
             /\ find_row(files', r, rows_per_page).val.d
                  = last'.arg[r - current_row] ]_vars

\* The same when the list fails with TableFull.
PartialBatchKeptWhenFull ==
    [][ (/\ last'.op = "insert_many"
         /\ last'.err = "TableFull"
         /\ current_row' > current_row)
        => \A r \in (current_row + 1)..current_row' :
             /\ find_row(files', r, rows_per_page).err = "none"
             /\ find_row(files', r, rows_per_page).val # PyNone
             /\ find_row(files', r, rows_per_page).val.d
                  = last'.arg[r - current_row] ]_vars

\* A list that failed with TableFull after a chunk of it was written.
PartialBatchReached ==
    /\ last.op = "insert_many"
    /\ last.err = "TableFull"
    /\ current_row > last.pre_row

\* The value a setting gets from the argument given for it.
Override(arg, inherited) == IF arg = NotGiven THEN inherited ELSE arg

\* C31: a table created with a rows_per_page or max_rows of its own stores
\* that value in its settings and inserts up to it; it has the database's
\* value only when none is given.
C31_SettingsOverride ==
    last.op = "create_table"
    => /\ files[DefinitionFile][1].settings.rows_per_page
            = Override(last.arg[1], RowsPerPage)
       /\ files[DefinitionFile][1].settings.max_rows
            = Override(last.arg[2], max_rows)
       /\ TableMaxRows(files) = Override(last.arg[2], max_rows)

\* The same for rows_per_page alone.
RowsPerPageOverride ==
    last.op = "create_table"
    => files[DefinitionFile][1].settings.rows_per_page
         = Override(last.arg[1], RowsPerPage)

\* The open table has the rows_per_page of its settings.
RowsPerPageOpened ==
    opened => rows_per_page = files[DefinitionFile][1].settings.rows_per_page

\* C32: when the page that update_row or delete_row has written does not
\* hold what it was to hold (the write was short), the call fails with the
\* write-verification error.
C32_WriteVerified ==
    last.op = "short_write" => last.err = "WriteVerification"

\* C33: two processes that run update_row or delete_row on rows of one page
\* with nothing to keep them apart can take their copy, remove and rename
\* steps in turn so that a change reported as done is not in the page, or
\* the page is missing (C33_Witness is such a state).  It takes two
\* processes inside the call together: as long as that has not happened no
\* call fails, every call that returned has its change in the page, and the
\* page exists whenever no process is inside the call.
C33_LostOnlyTogether ==
    ~writers.overlapped
    => /\ \A w \in Writers :
            /\ writers.at[w].pc # "failed"
            /\ writers.at[w].pc = "done" => writers.at[w].applied
       /\ (\A w \in Writers : writers.at[w].pc \notin Inside)
            => \A w \in Writers :
                 writers.at[w].pc = "done" => PathOf(w) \in DOMAIN files

\* One process has reported its change as done although the page it
\* renamed into place did not hold it, the other has failed, and the page is
\* gone.
C33_Witness ==
    /\ writers.overlapped
    /\ \E w, v \in Writers :
         /\ writers.at[w].pc = "done" /\ ~writers.at[w].applied
         /\ writers.at[v].pc = "failed"
         /\ PathOf(w) \notin DOMAIN files

\* The page files that hold a record.
PagesWithRecords(fs) ==
    { f \in PageFiles(fs) : \E i \in 1..Len(fs[f]) : fs[f][i] # BlankLine }

\* The r of the last non-blank line of the page file of the highest range
\* that holds a record, 0 when no page file holds one.
LastOfHighestPage(fs) ==
    IF PagesWithRecords(fs) = {} THEN 0
    ELSE LET f == CHOOSE g \in PagesWithRecords(fs) :
                      \A h \in PagesWithRecords(fs) : h.last <= g.last
         IN  LastNonBlank(fs[f], Len(fs[f])).r

\* C34: when open_table has opened the table, current_row is the r of the
\* last non-blank line of the highest page that holds a record, which is the
\* highest row id stored in the table, and 0 when no page holds a record.
C34_CursorOnOpen ==
    (last.op = "open_table" /\ last.err = "none")
    => /\ current_row = LastOfHighestPage(files)
       /\ current_row = MaxStored(files)

\* A table opened with its highest page emptied by deletes and a record in
\* a page below.
C34_Witness ==
    /\ last.op = "open_table" /\ last.err = "none"
    /\ current_row > 0
    /\ \E f \in PageFiles(files) :
         /\ f \notin PagesWithRecords(files)
         /\ \A g \in PagesWithRecords(files) : g.last < f.last

\* The records of `lines` other than those with id r, in their order.
OtherRecords(lines, r) ==
    LET Other(line) == line # BlankLine /\ line.r # r
    IN  SelectSeq(lines, Other)

\* The row id update_row or delete_row was called with.
RowOf(l) == IF l.op = "update_row" THEN l.arg[1] ELSE l.arg

\* C35: update_row(r, data) and delete_row(r) on a live row change the
\* record with id r alone: the other records of its page are the same, in
\* the same order, every other file is as it was, current_row is unchanged,
\* and after update_row the record has its row id on the line it had.
C35_OnlyTheRow ==
    [][ (last'.op \in {"update_row", "delete_row"} /\ Live(files, RowOf(last')))
        => /\ DOMAIN files' = DOMAIN files
           /\ \A f \in DOMAIN files :
                IF f = data_file_for_row_id(RowOf(last'), rows_per_page)
                THEN OtherRecords(files'[f], RowOf(last'))
                       = OtherRecords(files[f], RowOf(last'))
                ELSE files'[f] = files[f]
           /\ current_row' = current_row
           /\ last'.op = "update_row"
                => \A i \in 1..Len(files[data_file_for_row_id(RowOf(last'),
                                                               rows_per_page)]) :
                     LET page == data_file_for_row_id(RowOf(last'), rows_per_page)
                     IN  (files[page][i] # BlankLine
                            /\ files[page][i].r = RowOf(last'))
                         => /\ i <= Len(files'[page])
                            /\ files'[page][i] # BlankLine
                            /\ files'[page][i].r = RowOf(last') ]_vars

\* An update_row that has changed the first of two records of a page.
C35_Witness ==
    /\ last.op = "update_row" /\ last.err = "none"
    /\ data_file_for_row_id(last.arg[1], rows_per_page) \in DOMAIN files
    /\ LET lines == files[data_file_for_row_id(last.arg[1], rows_per_page)]
       IN  /\ Len(lines) >= 2
           /\ lines[1] # BlankLine /\ lines[1].r = last.arg[1]
           /\ lines[1].d.name = last.arg[2].name
           /\ lines[2] # BlankLine /\ lines[2].r # last.arg[1]

\* The number of records of a page file.
RecordCount(lines) == Cardinality({ i \in 1..Len(lines) : lines[i] # BlankLine })

\* C36: in every table state every stored record with id r lies in the page
\* file whose range [first_id, last_id] holds r, and no page file holds more
\* than rows_per_page records.
C36_RecordsInTheirPage ==
    \A f \in PageFiles(files) :
        /\ \A i \in 1..Len(files[f]) :
             files[f][i] # BlankLine
             => (f.first <= files[f][i].r /\ files[f][i].r <= f.last)
        /\ RecordCount(files[f]) <= rows_per_page

\* The content __modify_data_file is to give the page of the call's row.
PageAfter(fs, call) ==
    ModifiedLines(fs[data_file_for_row_id(call.row_id, rows_per_page)],
                  call.row_id,
                  IF call.op = "update_row"
                  THEN UpdateArgument(fs, call.row_id, call.data, rows_per_page)
                  ELSE EmptyDict,
                  IF call.op = "update_row" THEN "update" ELSE "delete")

\* The page of the call's row is in `after`, whole, as it was in `before`
\* or as the call is to leave it, and every other file is as it was.
WholePage(before, after, call) ==
    LET path == data_file_for_row_id(call.row_id, rows_per_page)
    IN  /\ DOMAIN after = DOMAIN before
        /\ after[path] \in {before[path], PageAfter(before, call)}
        /\ \A f \in DOMAIN before \ {path} : after[f] = before[f]

\* C37: when the process stops at a step of update_row or delete_row, the
\* next open_table either fails with the corruption guard or opens a table
\* in which the page of the row is there, whole, with the content of before
\* the operation or the content of after it.
C37_StoppedRewrite ==
    [][ /\ last'.op = "crash"
           => (open_table(files') = "CorruptionGuard"
               \/ WholePage(files, files', last'.arg))
        /\ (last.op = "crash" /\ last'.op = "open_table")
           => /\ files' = files
              /\ last'.err = open_table(files)
              /\ last'.err = "none" => opened' ]_vars

\* An open_table refused after a rewrite that stopped between the removal
\* of the page and the rename of its temp file.
C37_Witness ==
    /\ last.op = "open_table" /\ last.err = "CorruptionGuard"
    /\ \E f \in DOMAIN files :
         /\ f.ext = "temp"
         /\ [first |-> f.first, last |-> f.last, ext |-> "dat"] \notin DOMAIN files

\* C38: a single-row insert that fails with TableFull leaves the table as
\* it was: current_row and every page file are the same as before the call.
C38_TableFullChangesNothing ==
    [][ (last'.op = "insert" /\ last'.err = "TableFull")
        => (current_row' = current_row /\ files' = files) ]_vars

\* C39: update_row(r, data) with data the schema allows succeeds on every
\* live row, a row stored with null columns included: the named columns are
\* replaced and the other columns stay as they were, null where null.
C39_UpdateRowWithNulls ==
    [][ (/\ last'.op = "update_row"
         /\ Live(files, last'.arg[1])
         /\ ~NotAllowed(last'.arg[2]))
        => /\ last'.err = "none"
           /\ \E old \in RecordsOf(files, last'.arg[1]) :
                RecordsOf(files', last'.arg[1])
                  = { [r |-> old.r, d |-> DictUpdate(old.d, last'.arg[2])] } ]_vars

\* The rows of the list are rows the schema allows, and the table has room
\* for them below max_rows.
FittingBatch(data, cur) ==
    /\ \A x \in 1..Len(data) : ~NotAllowed(data[x])
    /\ cur + Len(data) <= max_rows

\* C40: an insert of a list of rows the schema allows, which fits within
\* max_rows, succeeds after a delete_row, whichever row was deleted: the
\* row whose id is current_row, or another row of the page of current_row.
C40_BatchAfterDelete ==
    [][ (/\ last.op = "delete_row" /\ last.err = "none"
         /\ last'.op = "insert_many"
         /\ FittingBatch(last'.arg, current_row))
        => last'.err = "none" ]_vars

=============================================================================
